---- MODULE Spec2Model ----
(***************************************************************************)
(* Task lifecycle engine of the audio-to-text backend: admission           *)
(* (TasksService.createTask), the BullMQ dispatcher, the executor          *)
(* (TaskProcessorService.processTask), the stuck-task sweeper              *)
(* (TaskCleanupService), the Deepgram completion webhook and the billing   *)
(* ledger (BillingService).  Every storage round trip (an awaited Supabase *)
(* call) is one atomic step; the steps of concurrent calls interleave.     *)
(***************************************************************************)
EXTENDS Integers, FiniteSets, Sequences, TLC

\* ------------------------------------------------------------------ bounds
MaxAdm == 2          \* createTask calls; call a creates the task with id a
MaxWorkers == 2      \* queue consumers running processTask
MaxDup == 1          \* duplicate (stalled-job) deliveries by the queue
MaxTicks == 3        \* clock ticks
MaxHooks == 2        \* deliveries of one task's completion webhook
MaxDeduct == 2       \* concurrent deductBalance calls
MaxAdd == 1          \* concurrent addBalance calls
MaxAnonCalls == 3    \* concurrent calls of the anon-token functions of AuthService
MaxStripeHooks == 2  \* concurrent Stripe webhook deliveries
MaxMinutes == 3      \* largest amount of one deduct / add call
MaxInitBalance == 4  \* largest initial minutes_balance

\* ------------------------------------------------- program constants
JOB_ATTEMPTS == 3
TASK_TIMEOUT_MINUTES == 10
CRON_MINUTES == 5

NULL == "null"

PENDING == "pending"
PROCESSING == "processing"
SUCCEEDED == "succeeded"
FAILED == "failed"
TaskStatus == {PENDING, PROCESSING, SUCCEEDED, FAILED}

UPLOAD == "upload"
URL == "url"
YOUTUBE == "youtube"
SourceType == {UPLOAD, URL, YOUTUBE}

PAID == "paid"
FREE == "free"

UserIds == {"u1"}
AnonIds == {"a1"}

User1 == [id |-> "u1", anonId |-> NULL, isAuthenticated |-> TRUE]
Anon1 == [id |-> NULL, anonId |-> "a1", isAuthenticated |-> FALSE]

\* trial.maxDurationMinutes, default
TRIAL_MAX_MINUTES == 30

\* outcomes of the video lookup of the trial gate: extractVideoId finds no id,
\* the API call fails, the API knows no such video, or the video is found with
\* a duration in seconds
NoLookup == [kind |-> "none", duration |-> 0]
ShortVideo == [kind |-> "found", duration |-> 600]
VideoLookups ==
    { [kind |-> "no_id", duration |-> 0],
      [kind |-> "api_error", duration |-> 0],
      [kind |-> "not_found", duration |-> 0] }
    \cup { [kind |-> "found", duration |-> d] :
              d \in {60 * TRIAL_MAX_MINUTES - 1, 60 * TRIAL_MAX_MINUTES,
                     60 * TRIAL_MAX_MINUTES + 1} }

\* caller contexts (CurrentUser) the auth guard produces
Callers == {User1, Anon1}

\* createTask requests: caller context and CreateTaskDto
\* video is what the YouTube metadata lookup of source_url yields if it is made
Requests ==
    { [user |-> User1, is_trial |-> FALSE, source_type |-> UPLOAD, video |-> ShortVideo],
      [user |-> User1, is_trial |-> FALSE, source_type |-> YOUTUBE, video |-> ShortVideo],
      [user |-> User1, is_trial |-> TRUE, source_type |-> YOUTUBE, video |-> ShortVideo],
      [user |-> Anon1, is_trial |-> FALSE, source_type |-> YOUTUBE, video |-> ShortVideo] }

\* what processTask may catch: the provider call or saveTranscript threw
Errors == {"ENGINE_ERROR", "SAVE_ERROR"}

\* durations (seconds) a provider may report
Durations == {61}

Adm == 1..MaxAdm
TaskIds == Adm
Workers == 1..MaxWorkers
Hooks == 1..MaxHooks
DeductCalls == 1..MaxDeduct
AddCalls == 1..MaxAdd
AnonCalls == 1..MaxAnonCalls

VARIABLES
    tasks,        \* table tasks: task id -> row (status NULL: no row)
    transcripts,  \* table transcripts: task id -> number of rows
    trialUsages,  \* table trial_usages: <<user_id, anon_id>> -> number of rows
    anonTokens,   \* table anon_tokens: anon_id -> [row, used_trial, ip_hash, ua_hash]
    balances,     \* table balances: user_id -> [row, minutes_balance]
    adm,          \* createTask calls
    jobs,         \* queue: task id -> job
    dupCount,     \* duplicate deliveries made so far
    wk,           \* queue consumers (processTask)
    sweeper,      \* cleanupStuckTasks call
    now,          \* wall clock, minutes
    hooks,        \* Deepgram webhook deliveries
    ded,          \* deductBalance calls
    addc,         \* addBalance calls
    deductLog,    \* history: task id -> number of deductBalance calls made for it
    trialLog,     \* history: task id -> number of trial_usages rows inserted for it
    balance0,     \* history: the balances table of the initial state
    fcall,        \* a single call of a query or pure function and its result
    webhookSecret, \* configuration: deepgram.webhookSecret ('' when not set)
    anonc,        \* calls of getOrCreateAnonToken, recordTrialUsage, bindTrialToUser
    payments,     \* table payments: Stripe event id -> row
    stripe        \* Stripe webhook deliveries

vars == <<tasks, transcripts, trialUsages, anonTokens, balances, adm, jobs,
          dupCount, wk, sweeper, now, hooks, ded, addc, deductLog, trialLog,
          balance0, fcall, webhookSecret, anonc, payments, stripe>>

dbVars == <<tasks, transcripts, trialUsages, anonTokens, balances>>

\* ------------------------------------------------------------------ rows
\* a numeric column that holds no value (SQL NULL)
NoValue == 0 - 1

NoBalance == [row |-> FALSE, minutes_balance |-> 0]
\* the literal '' that recordTrialUsage's upsert sends for ip_hash and ua_hash
EmptyHash == ""

\* AuthService.hash: sha256 hex digest of the value
Hash(value) == "sha256:" \o value

NoAnonToken ==
    [row |-> FALSE, used_trial |-> FALSE, ip_hash |-> EmptyHash, ua_hash |-> EmptyHash]
NoUser == [id |-> NULL, anonId |-> NULL, isAuthenticated |-> FALSE]
NoCall == [op |-> "none"]
NoJob == [state |-> "none", attemptsMade |-> 0, owner |-> 0, priority |-> 0]

NoTask ==
    [status |-> NULL, user_id |-> NULL, anon_id |-> NULL, source_type |-> NULL,
     is_trial |-> FALSE, priority |-> NULL, error |-> NULL,
     duration_sec |-> NoValue, cost_minutes |-> NoValue, updated_at |-> 0]

\* Math.ceil(duration / 60)
CeilMinutes(duration) == (duration + 59) \div 60

\* supabase .update(fields).eq('id', taskId): no condition on the current status
UpdateTaskStatus(tbl, taskId, status, updates, at) ==
    IF tbl[taskId].status = NULL THEN tbl
    ELSE [tbl EXCEPT ![taskId] =
            [f \in DOMAIN tbl[taskId] |->
                IF f = "status" THEN status
                ELSE IF f = "updated_at" THEN at
                ELSE IF f \in DOMAIN updates THEN updates[f]
                ELSE tbl[taskId][f]]]

\* number of trial_usages rows with the given user_id
UsageRowsOfUser(userId) ==
    LET keys == {k \in DOMAIN trialUsages : k[1] = userId}
        RECURSIVE Sum(_)
        Sum(S) == IF S = {} THEN 0
                  ELSE LET k == CHOOSE x \in S : TRUE
                       IN trialUsages[k] + Sum(S \ {k})
    IN Sum(keys)

\* AuthService.hasUsedTrial; .single() yields data only for exactly one row
HasUsedTrial(userId, anonId) ==
    IF userId /= NULL THEN UsageRowsOfUser(userId) = 1
    ELSE IF anonId /= NULL THEN
        (anonTokens[anonId].row /\ anonTokens[anonId].used_trial)
    ELSE FALSE

\* the concurrency-gate query: ids of the caller's pending / processing tasks
PendingTasksOf(user) ==
    {t \in TaskIds :
        /\ tasks[t].status \in {PENDING, PROCESSING}
        /\ IF user.id /= NULL THEN tasks[t].user_id = user.id
           ELSE IF user.anonId /= NULL THEN tasks[t].anon_id = user.anonId
           ELSE TRUE}

\* ------------------------------------------------------------- admission
\* racedWith is history: the calls of the same owner that had passed the
\* concurrency gate and not yet inserted when this call passed it (or vice versa)
\* queryFailed is history too: a gate query of this call returned an error
\* lookup is history: the outcome of the video lookup this call made
IdleAdm == [pc |-> "idle", user |-> NoUser, is_trial |-> FALSE,
            source_type |-> NULL, result |-> NULL, racedWith |-> {},
            queryFailed |-> FALSE, lookup |-> NoLookup]

\* the balance gate with < in place of <=
InsufficientBalanceBelowZero(balance) ==
    ~balance.row \/ balance.minutes_balance < 0

\* the balance gate: !balance || balance.minutes_balance <= 0
InsufficientBalance(balance) ==
    ~balance.row \/ balance.minutes_balance <= 0

\* the trial gate's check of a YouTube link: the exception createTask throws,
\* NULL if it passes; getVideoInfo throws a plain Error when the API call fails
VideoGate(video) ==
    IF video.kind = "no_id" THEN "INVALID_INPUT"
    ELSE IF video.kind = "api_error" THEN "YOUTUBE_API_ERROR"
    ELSE IF video.kind = "not_found" THEN "INVALID_INPUT"
    ELSE IF video.duration > 60 * TRIAL_MAX_MINUTES THEN "DURATION_EXCEEDED"
    ELSE NULL

\* createTask, steps 1 and 2, given what hasUsedTrial returned and whether its
\* query failed: trial gate (with the video lookup) or balance gate
CreateTaskGatesStep(a, req, hasUsed, failed) ==
    /\ adm[a].pc = "idle"
    /\ \A a2 \in Adm : a2 < a => adm[a2].pc /= "idle"
    /\ LET user == req.user
           isTrial == req.is_trial
           isAnonymous == ~user.isAuthenticated
           looksUp == (isTrial \/ isAnonymous) /\ req.source_type = YOUTUBE
           call == [pc |-> "gated", user |-> user, is_trial |-> req.is_trial,
                    source_type |-> req.source_type, result |-> NULL,
                    racedWith |-> {}, queryFailed |-> failed,
                    lookup |-> IF looksUp THEN req.video ELSE NoLookup]
       IN IF (isTrial \/ isAnonymous) /\ hasUsed
          THEN adm' = [adm EXCEPT ![a] =
                         [IdleAdm EXCEPT !.pc = "done", !.result = "TRIAL_EXHAUSTED",
                                         !.queryFailed = failed]]
          ELSE IF looksUp /\ VideoGate(req.video) /= NULL
          THEN adm' = [adm EXCEPT ![a] =
                         [IdleAdm EXCEPT !.pc = "done", !.result = VideoGate(req.video),
                                         !.queryFailed = failed, !.lookup = req.video]]
          ELSE IF user.isAuthenticated /\ ~isTrial
                  /\ InsufficientBalance(balances[user.id])
          THEN adm' = [adm EXCEPT ![a] =
                         [IdleAdm EXCEPT !.pc = "done", !.result = "INSUFFICIENT_BALANCE",
                                         !.queryFailed = failed, !.user = user,
                                         !.is_trial = isTrial]]
          ELSE adm' = [adm EXCEPT ![a] = call]
    /\ UNCHANGED <<dbVars, jobs, dupCount, wk, sweeper, now, hooks, ded, addc, deductLog, trialLog, balance0, fcall, webhookSecret, anonc, payments, stripe>>

\* createTask, steps 1 and 2: the queries answer
CreateTaskGates(a, req) ==
    CreateTaskGatesStep(a, req, HasUsedTrial(req.user.id, req.user.anonId), FALSE)

\* createTask, step 1 when the query of hasUsedTrial returns an error: the
\* method destructures only data, which is null, and returns false
CreateTaskGatesQueryError(a, req) ==
    /\ req.is_trial \/ ~req.user.isAuthenticated
    /\ CreateTaskGatesStep(a, req, FALSE, TRUE)

\* createTask, step 3, given the rows the concurrency-gate query returned
\* (none when it failed: pendingTasks is null)
CreateTaskConcurrencyGateStep(a, pendingTasks, failed) ==
    /\ adm[a].pc = "gated"
    /\ IF pendingTasks /= {}
       THEN adm' = [adm EXCEPT ![a] =
                      [IdleAdm EXCEPT !.pc = "done", !.result = "CONFLICT",
                                      !.racedWith = adm[a].racedWith,
                                      !.queryFailed = adm[a].queryFailed]]
       ELSE LET racing == {b \in Adm \ {a} : /\ adm[b].pc = "insert"
                                              /\ adm[b].user = adm[a].user}
            IN adm' = [b \in Adm |->
                         IF b = a THEN [adm[a] EXCEPT !.pc = "insert",
                                                       !.racedWith = racing,
                                                       !.queryFailed = @ \/ failed]
                         ELSE IF b \in racing
                              THEN [adm[b] EXCEPT !.racedWith = @ \cup {a}]
                              ELSE adm[b]]
    /\ UNCHANGED <<dbVars, jobs, dupCount, wk, sweeper, now, hooks, ded, addc, deductLog, trialLog, balance0, fcall, webhookSecret, anonc, payments, stripe>>

\* createTask, step 3: the concurrency-gate query answers
CreateTaskConcurrencyGate(a) ==
    CreateTaskConcurrencyGateStep(a, PendingTasksOf(adm[a].user), FALSE)

\* createTask, step 3 when the query returns an error: only data is
\* destructured, pendingTasks is null and the check is skipped
CreateTaskConcurrencyGateQueryError(a) ==
    CreateTaskConcurrencyGateStep(a, {}, TRUE)

\* createTask, step 4: insert the task row (plain insert, no uniqueness on owner)
CreateTaskInsert(a) ==
    /\ adm[a].pc = "insert"
    /\ LET user == adm[a].user
           isTrial == adm[a].is_trial
           isAnonymous == ~user.isAuthenticated
       IN tasks' = [tasks EXCEPT ![a] =
            [status |-> PENDING, user_id |-> user.id, anon_id |-> user.anonId,
             source_type |-> adm[a].source_type,
             is_trial |-> (isTrial \/ isAnonymous),
             priority |-> IF isTrial \/ isAnonymous THEN FREE ELSE PAID,
             error |-> NULL, duration_sec |-> NoValue, cost_minutes |-> NoValue,
             updated_at |-> now]]
    /\ adm' = [adm EXCEPT ![a].pc = "enqueue"]
    /\ UNCHANGED <<transcripts, trialUsages, anonTokens, balances, jobs, dupCount,
                   wk, sweeper, now, hooks, ded, addc, deductLog, trialLog, balance0, fcall, webhookSecret, anonc, payments, stripe>>

\* the job option with the two numbers exchanged
QueuePriorityInverted(priority) ==
    IF priority = PAID THEN 10 ELSE 1

\* the job option priority: priority === Priority.PAID ? 1 : 10
QueuePriority(priority) ==
    IF priority = PAID THEN 1 ELSE 10

\* createTask, step 5: tasksQueue.add(..., {attempts: 3, ...}) and return
CreateTaskEnqueue(a) ==
    /\ adm[a].pc = "enqueue"
    /\ jobs' = [jobs EXCEPT ![a] =
                  [state |-> "waiting", attemptsMade |-> 0, owner |-> 0,
                   priority |-> QueuePriority(tasks[a].priority)]]
    /\ adm' = [adm EXCEPT ![a] =
                 [IdleAdm EXCEPT !.pc = "done", !.result = "task_id",
                                 !.racedWith = adm[a].racedWith,
                                 !.queryFailed = adm[a].queryFailed]]
    /\ UNCHANGED <<dbVars, dupCount, wk, sweeper, now, hooks, ded, addc, deductLog, trialLog, balance0, fcall, webhookSecret, anonc, payments, stripe>>

\* ------------------------------------------------------------ dispatcher
IdleWorker == [pc |-> "idle", task |-> 0, duration |-> 0, costMinutes |-> 0]

\* a processor that swallows the error: the job completes either way
JobAfterNoRethrow(job, w, ok) ==
    IF job.state /= "active" \/ job.owner /= w THEN job
    ELSE [job EXCEPT !.state = "completed", !.owner = 0]

\* the job's fate when process() returns (ok) or throws (~ok)
JobAfter(job, w, ok) ==
    IF job.state /= "active" \/ job.owner /= w THEN job
    ELSE IF ok THEN [job EXCEPT !.state = "completed", !.owner = 0]
    ELSE IF job.attemptsMade + 1 < JOB_ATTEMPTS
         THEN [job EXCEPT !.state = "waiting", !.owner = 0,
                          !.attemptsMade = job.attemptsMade + 1]
         ELSE [job EXCEPT !.state = "failed", !.owner = 0,
                          !.attemptsMade = job.attemptsMade + 1]

\* -------------------------------------------------------------- executor
\* A worker takes the most urgent waiting job (smaller number = more urgent) and
\* processTask runs its first statement, updateTaskStatus(task_id, PROCESSING).
Deliver(w, t) ==
    /\ wk[w].pc = "idle"
    /\ \A w2 \in Workers : w2 < w => wk[w2].pc /= "idle"
    /\ jobs[t].state = "waiting"
    /\ \A t2 \in TaskIds :
          jobs[t2].state = "waiting" => jobs[t2].priority >= jobs[t].priority
    /\ jobs' = [jobs EXCEPT ![t].state = "active", ![t].owner = w]
    /\ tasks' = UpdateTaskStatus(tasks, t, PROCESSING, <<>>, now)
    /\ wk' = [wk EXCEPT ![w] = [IdleWorker EXCEPT !.pc = "provider", !.task = t]]
    /\ UNCHANGED <<transcripts, trialUsages, anonTokens, balances, adm, dupCount,
                   sweeper, now, hooks, ded, addc, deductLog, trialLog, balance0, fcall, webhookSecret, anonc, payments, stripe>>

\* At-least-once delivery: an active job whose lock lapsed goes to a second
\* worker, whose processTask starts the same way.
DeliverDuplicate(w, t) ==
    /\ wk[w].pc = "idle"
    /\ \A w2 \in Workers : w2 < w => wk[w2].pc /= "idle"
    /\ jobs[t].state = "active"
    /\ jobs[t].owner /= w
    /\ dupCount < MaxDup
    /\ dupCount' = dupCount + 1
    /\ jobs' = [jobs EXCEPT ![t].owner = w]
    /\ tasks' = UpdateTaskStatus(tasks, t, PROCESSING, <<>>, now)
    /\ wk' = [wk EXCEPT ![w] = [IdleWorker EXCEPT !.pc = "provider", !.task = t]]
    /\ UNCHANGED <<transcripts, trialUsages, anonTokens, balances, adm, sweeper,
                   now, hooks, ded, addc, deductLog, trialLog, balance0, fcall, webhookSecret, anonc, payments, stripe>>

\* processTask: cost of a provider result
CostMinutes(sourceType, duration, isGenerated) ==
    IF sourceType = YOUTUBE
    THEN (IF isGenerated THEN CeilMinutes(duration) ELSE 0)
    ELSE CeilMinutes(duration)

\* saveTranscript with an insert that adds a row whether or not one exists
InsertTranscript(tbl, taskId) ==
    [tbl EXCEPT ![taskId] = @ + 1]

\* saveTranscript: upsert keyed on task_id (the primary key of transcripts):
\* inserts the row if there is none, else overwrites the one row
UpsertTranscript(tbl, taskId) ==
    IF tbl[taskId] = 0 THEN [tbl EXCEPT ![taskId] = 1] ELSE tbl

\* HTTP status of Supadata's first answer: 200 carries the content (captions
\* that exist already), 202 starts an asynchronous job that is polled
SupadataStatuses == {200, 202}
SupadataModes == {"auto", "native", "generate"}

\* SupadataService.getTranscript: the isGenerated flag of the result; both the
\* 202 branch (pollJob) and the 200 branch (parseResponse) get mode !== 'native'
GetTranscriptIsGenerated(mode, status) ==
    IF status = 202 THEN mode /= "native" ELSE mode /= "native"

\* isGenerated of the TranscriptResult processTask receives: processWithSupadata
\* calls getTranscript in mode 'auto'; processWithDeepgram always sets true
ResultIsGenerated(sourceType, status) ==
    IF sourceType = YOUTUBE THEN GetTranscriptIsGenerated("auto", status) ELSE TRUE

\* processTask: the provider call returns its result and saveTranscript stores it
ProcessTaskTranscribe(w, duration, status) ==
    /\ wk[w].pc = "provider"
    /\ LET src == tasks[wk[w].task].source_type
       IN wk' = [wk EXCEPT ![w].pc = "succeed", ![w].duration = duration,
                    ![w].costMinutes =
                        CostMinutes(src, duration, ResultIsGenerated(src, status))]
    /\ transcripts' = UpsertTranscript(transcripts, wk[w].task)
    /\ UNCHANGED <<tasks, trialUsages, anonTokens, balances, adm, jobs, dupCount,
                   sweeper, now, hooks, ded, addc, deductLog, trialLog, balance0, fcall, webhookSecret, anonc, payments, stripe>>

\* processTask: the provider call (ENGINE_ERROR) or saveTranscript (SAVE_ERROR)
\* throws; catch: updateTaskStatus(task_id, FAILED, {error}); throw error
ProcessTaskCatch(w, error) ==
    /\ wk[w].pc = "provider"
    /\ LET t == wk[w].task
       IN /\ tasks' = UpdateTaskStatus(tasks, t, FAILED, [error |-> error], now)
          /\ jobs' = [jobs EXCEPT ![t] = JobAfter(jobs[t], w, FALSE)]
    /\ wk' = [wk EXCEPT ![w] = IdleWorker]
    /\ UNCHANGED <<transcripts, trialUsages, anonTokens, balances, adm, dupCount,
                   sweeper, now, hooks, ded, addc, deductLog, trialLog, balance0, fcall, webhookSecret, anonc, payments, stripe>>

\* processTask: updateTaskStatus(task_id, SUCCEEDED, {duration_sec, cost_minutes})
ProcessTaskSucceed(w) ==
    /\ wk[w].pc = "succeed"
    /\ tasks' = UpdateTaskStatus(tasks, wk[w].task, SUCCEEDED,
                    [duration_sec |-> wk[w].duration,
                     cost_minutes |-> wk[w].costMinutes], now)
    /\ wk' = [wk EXCEPT ![w].pc = "record"]
    /\ UNCHANGED <<transcripts, trialUsages, anonTokens, balances, adm, jobs,
                   dupCount, sweeper, now, hooks, ded, addc, deductLog, trialLog, balance0, fcall, webhookSecret, anonc, payments, stripe>>

\* trial_usages.anon_id REFERENCES anon_tokens(anon_id): the insert is rejected
\* while the anon id has no anon_tokens row
TrialUsageInsertable(anonId) ==
    anonId = NULL \/ anonTokens[anonId].row

\* AuthService.recordTrialUsage, first statement: insert into trial_usages;
\* an insert error is logged and ignored
InsertTrialUsage(tbl, userId, anonId) ==
    IF TrialUsageInsertable(anonId)
    THEN [tbl EXCEPT ![<<userId, anonId>>] = @ + 1]
    ELSE tbl

\* AuthService.recordTrialUsage, second statement: upsert anon_tokens used_trial
UpsertAnonToken(tbl, anonId) ==
    [tbl EXCEPT ![anonId] = [row |-> TRUE, used_trial |-> TRUE,
                            ip_hash |-> EmptyHash, ua_hash |-> EmptyHash]]

\* recordTrialUsageIfNeeded: read the row; a trial task inserts its trial_usages row
ProcessTaskRecordTrial(w) ==
    /\ wk[w].pc = "record"
    /\ LET t == wk[w].task
           row == tasks[t]
       IN IF row.status /= NULL /\ row.is_trial
          THEN /\ trialUsages' = InsertTrialUsage(trialUsages, row.user_id, row.anon_id)
               /\ trialLog' = [trialLog EXCEPT ![t] =
                                 IF TrialUsageInsertable(row.anon_id) THEN @ + 1 ELSE @]
               /\ IF row.anon_id /= NULL
                  THEN wk' = [wk EXCEPT ![w].pc = "flag"] /\ jobs' = jobs
                  ELSE /\ wk' = [wk EXCEPT ![w] = IdleWorker]
                       /\ jobs' = [jobs EXCEPT ![t] = JobAfter(jobs[t], w, TRUE)]
          ELSE /\ trialUsages' = trialUsages
               /\ trialLog' = trialLog
               /\ wk' = [wk EXCEPT ![w] = IdleWorker]
               /\ jobs' = [jobs EXCEPT ![t] = JobAfter(jobs[t], w, TRUE)]
    /\ UNCHANGED <<tasks, transcripts, anonTokens, balances, adm, dupCount,
                   sweeper, now, hooks, ded, addc, deductLog, balance0, fcall, webhookSecret, anonc, payments, stripe>>

\* recordTrialUsage: upsert of the anon token, then processTask returns
ProcessTaskFlagAnon(w) ==
    /\ wk[w].pc = "flag"
    /\ LET t == wk[w].task
       IN /\ anonTokens' = UpsertAnonToken(anonTokens, tasks[t].anon_id)
          /\ jobs' = [jobs EXCEPT ![t] = JobAfter(jobs[t], w, TRUE)]
    /\ wk' = [wk EXCEPT ![w] = IdleWorker]
    /\ UNCHANGED <<tasks, transcripts, trialUsages, balances, adm, dupCount,
                   sweeper, now, hooks, ded, addc, deductLog, trialLog, balance0, fcall, webhookSecret, anonc, payments, stripe>>

\* --------------------------------------------------------------- sweeper
\* at and seen are history: the time of the last select, and the tasks table as
\* it was at the select whose update is still to come
IdleSweeper == [pc |-> "idle", taskIds |-> {}, at |-> NoValue, seen |-> <<>>]

\* the select with .lte in place of .lt
StuckTasksInclusive ==
    {t \in TaskIds : /\ tasks[t].status = PROCESSING
                     /\ tasks[t].updated_at <= now - TASK_TIMEOUT_MINUTES}

\* cleanupStuckTasks: select processing tasks with updated_at < now - timeout
StuckTasks ==
    {t \in TaskIds : /\ tasks[t].status = PROCESSING
                     /\ tasks[t].updated_at < now - TASK_TIMEOUT_MINUTES}

CleanupSelect ==
    /\ sweeper.pc = "idle"
    /\ IF StuckTasks = {}
       THEN sweeper' = [IdleSweeper EXCEPT !.at = now]
       ELSE sweeper' = [pc |-> "update", taskIds |-> StuckTasks, at |-> now,
                        seen |-> tasks]
    /\ UNCHANGED <<dbVars, adm, jobs, dupCount, wk, now, hooks, ded, addc, deductLog, trialLog, balance0, fcall, webhookSecret, anonc, payments, stripe>>

\* an update that writes no row
SweepWriteNothing(taskIds) ==
    tasks

\* update({status: FAILED, error, updated_at}).in('id', taskIds)
SweepWrite(taskIds) ==
    [t \in TaskIds |->
        IF t \in taskIds
        THEN UpdateTaskStatus(tasks, t, FAILED, [error |-> "TIMEOUT"], now)[t]
        ELSE tasks[t]]

\* cleanupStuckTasks: update ... .in('id', taskIds), whatever the status is now
CleanupUpdate ==
    /\ sweeper.pc = "update"
    /\ tasks' = SweepWrite(sweeper.taskIds)
    /\ sweeper' = [IdleSweeper EXCEPT !.at = sweeper.at]
    /\ UNCHANGED <<transcripts, trialUsages, anonTokens, balances, adm, jobs,
                   dupCount, wk, now, hooks, ded, addc, deductLog, trialLog, balance0, fcall, webhookSecret, anonc, payments, stripe>>

\* the clock advances by one cron period
Tick ==
    /\ now < MaxTicks * CRON_MINUTES
    /\ now' = now + CRON_MINUTES
    /\ UNCHANGED <<dbVars, adm, jobs, dupCount, wk, sweeper, hooks, ded, addc,
                   deductLog, trialLog, balance0, fcall, webhookSecret, anonc, payments, stripe>>

\* -------------------------------------------------------- billing ledger
IdleDeduct == [pc |-> "idle", minutes |-> 0, cur |-> NoBalance, result |-> NULL]
IdleAdd == [pc |-> "idle", minutes |-> 0, cur |-> NoBalance, result |-> NULL]

\* deductBalance without step 2, the check of the balance read
DeductRefusedNoCheck(cur, minutes) ==
    ~cur.row

\* deductBalance, steps 1 and 2: no row, or the balance read is below minutes
DeductRefused(cur, minutes) ==
    ~cur.row \/ cur.minutes_balance < minutes

\* the update filter without .gte('minutes_balance', minutes)
DeductMatchesAnyBalance(tbl, userId, minutes) ==
    tbl[userId].row

\* deductBalance, step 3: the filter .eq('user_id').gte('minutes_balance', minutes)
DeductMatches(tbl, userId, minutes) ==
    tbl[userId].row /\ tbl[userId].minutes_balance >= minutes

\* the update without any filter on the balance column
DeductWriteUnfiltered(tbl, userId, cur, minutes) ==
    IF tbl[userId].row
    THEN [tbl EXCEPT ![userId].minutes_balance = cur.minutes_balance - minutes]
    ELSE tbl

\* deductBalance, step 3: the update writes the balance read in step 1 minus minutes
DeductWrite(tbl, userId, cur, minutes) ==
    IF DeductMatches(tbl, userId, minutes)
    THEN [tbl EXCEPT ![userId].minutes_balance = cur.minutes_balance - minutes]
    ELSE tbl

\* deductBalance(userId, minutes): getBalance and the two checks
DeductBalanceRead(d, userId, minutes) ==
    /\ ded[d].pc = "idle"
    /\ LET cur == balances[userId]
       IN IF DeductRefused(cur, minutes)
          THEN ded' = [ded EXCEPT ![d] = [pc |-> "done", minutes |-> minutes,
                                          cur |-> cur, result |-> "false"]]
          ELSE ded' = [ded EXCEPT ![d] = [pc |-> "update", minutes |-> minutes,
                                          cur |-> cur, result |-> NULL]]
    /\ UNCHANGED <<dbVars, adm, jobs, dupCount, wk, sweeper, now, hooks, addc,
                   deductLog, trialLog, balance0, fcall, webhookSecret, anonc, payments, stripe>>

\* deductBalance: the conditional update; true iff a row was updated
DeductBalanceUpdate(d, userId) ==
    /\ ded[d].pc = "update"
    /\ balances' = DeductWrite(balances, userId, ded[d].cur, ded[d].minutes)
    /\ ded' = [ded EXCEPT ![d].pc = "done",
                          ![d].result = IF DeductMatches(balances, userId, ded[d].minutes)
                                        THEN "true" ELSE "false"]
    /\ UNCHANGED <<tasks, transcripts, trialUsages, anonTokens, adm, jobs, dupCount,
                   wk, sweeper, now, hooks, addc, deductLog, trialLog, balance0, fcall, webhookSecret, anonc, payments, stripe>>

\* addBalance(userId, minutes): getBalance
AddBalanceRead(d, userId, minutes) ==
    /\ addc[d].pc = "idle"
    /\ addc' = [addc EXCEPT ![d] =
                  [pc |-> IF balances[userId].row THEN "update" ELSE "insert",
                   minutes |-> minutes, cur |-> balances[userId], result |-> NULL]]
    /\ UNCHANGED <<dbVars, adm, jobs, dupCount, wk, sweeper, now, hooks, ded,
                   deductLog, trialLog, balance0, fcall, webhookSecret, anonc, payments, stripe>>

\* addBalance: update of the existing row with the balance read plus minutes
AddBalanceUpdate(d, userId) ==
    /\ addc[d].pc = "update"
    /\ balances' = IF balances[userId].row
                   THEN [balances EXCEPT ![userId].minutes_balance =
                            addc[d].cur.minutes_balance + addc[d].minutes]
                   ELSE balances
    /\ addc' = [addc EXCEPT ![d].pc = "done", ![d].result = "true"]
    /\ UNCHANGED <<tasks, transcripts, trialUsages, anonTokens, adm, jobs, dupCount,
                   wk, sweeper, now, hooks, ded, deductLog, trialLog, balance0, fcall, webhookSecret, anonc, payments, stripe>>

\* addBalance: insert of a new row; user_id is the primary key
AddBalanceInsert(d, userId) ==
    /\ addc[d].pc = "insert"
    /\ IF balances[userId].row
       THEN /\ balances' = balances
            /\ addc' = [addc EXCEPT ![d].pc = "done", ![d].result = "false"]
       ELSE /\ balances' = [balances EXCEPT ![userId] =
                              [row |-> TRUE, minutes_balance |-> addc[d].minutes]]
            /\ addc' = [addc EXCEPT ![d].pc = "done", ![d].result = "true"]
    /\ UNCHANGED <<tasks, transcripts, trialUsages, anonTokens, adm, jobs, dupCount,
                   wk, sweeper, now, hooks, ded, deductLog, trialLog, balance0, fcall, webhookSecret, anonc, payments, stripe>>

\* --------------------------------------------------- completion webhook
\* durations (seconds) a webhook body may carry; a missing duration counts as 0
HookDurations == {0, 61}

\* getWebhookSecret: configService.get('deepgram.webhookSecret') || ''
NoSecret == ""
ServerSecret == "k1"
WebhookSecrets == {NoSecret, ServerSecret}

\* createHmac('sha256', secret).update(payload).digest('hex'): the digest is
\* determined by the payload and the key, and differs when either differs
Hmac(payload, secret) == [payload |-> payload, key |-> secret]

\* the raw body of a delivery; the request carries no rawBody when the
\* platform did not keep it (req.rawBody?.toString() is undefined)
RawBody == 1
NoRawBody == 0
RawBodies == {NoRawBody, RawBody}

\* the dg-signature header: absent, or a hex digest with or without 'sha256='
NoSignature == [prefixed |-> FALSE, hex |-> Hmac(0, NoSecret)]
Signatures ==
    {NoSignature} \cup
    {[prefixed |-> p, hex |-> Hmac(RawBody, k)] :
        p \in BOOLEAN, k \in {ServerSecret, "k2"}}

\* verifyWebhookSignature: false without signature or secret; strips the
\* 'sha256=' prefix and compares the digests
VerifyWebhookSignature(payload, signature, secret) ==
    IF signature = NoSignature \/ secret = NoSecret THEN FALSE
    ELSE signature.hex = Hmac(payload, secret)

\* handleWebhook: the signature is checked only if (webhookSecret && rawBody)
SignatureAccepted(rawBody, signature, secret) ==
    (secret /= NoSecret /\ rawBody /= NoRawBody)
        => VerifyWebhookSignature(rawBody, signature, secret)

IdleHook == [pc |-> "idle", taskId |-> 0, row |-> NoTask, duration |-> 0,
             cur |-> NoBalance, signature |-> NoSignature, rawBody |-> NoRawBody]

\* handleWebhook: verify the signature (UnauthorizedException when invalid),
\* then load the task; the idempotency check returns on a terminal status
HandleWebhookRead(h, t, duration, signature, rawBody) ==
    /\ hooks[h].pc = "idle"
    /\ IF ~SignatureAccepted(rawBody, signature, webhookSecret)
       THEN hooks' = [hooks EXCEPT ![h] =
                        [IdleHook EXCEPT !.pc = "rejected", !.taskId = t,
                                         !.signature = signature,
                                         !.rawBody = rawBody]]
       ELSE IF tasks[t].status = NULL \/ tasks[t].status \in {SUCCEEDED, FAILED}
       THEN hooks' = [hooks EXCEPT ![h] =
                        [IdleHook EXCEPT !.pc = "done", !.taskId = t,
                                         !.signature = signature,
                                         !.rawBody = rawBody]]
       ELSE hooks' = [hooks EXCEPT ![h] =
                        [pc |-> "save", taskId |-> t, row |-> tasks[t],
                         duration |-> duration, cur |-> NoBalance,
                         signature |-> signature, rawBody |-> rawBody]]
    /\ UNCHANGED <<dbVars, adm, jobs, dupCount, wk, sweeper, now, ded, addc,
                   deductLog, trialLog, balance0, fcall, webhookSecret, anonc, payments, stripe>>

\* where handleWebhook goes after the step at pc
HookAfter(row, pc) ==
    IF pc = "save" /\ ~row.is_trial /\ row.user_id /= NULL THEN "deduct"
    ELSE IF pc \in {"save", "deduct"} /\ row.is_trial THEN "trial"
    ELSE IF pc = "trial" /\ row.anon_id /= NULL THEN "flag"
    ELSE "succeed"

\* handleWebhook: the uploads succeed and saveTranscript stores the result
HandleWebhookSave(h) ==
    /\ hooks[h].pc = "save"
    /\ transcripts' = UpsertTranscript(transcripts, hooks[h].taskId)
    /\ hooks' = [hooks EXCEPT ![h].pc = HookAfter(hooks[h].row, "save")]
    /\ UNCHANGED <<tasks, trialUsages, anonTokens, balances, adm, jobs, dupCount,
                   wk, sweeper, now, ded, addc, deductLog, trialLog, balance0, fcall, webhookSecret, anonc, payments, stripe>>

\* handleWebhook: an upload or saveTranscript throws;
\* catch: tasksService.updateTaskStatus(taskId, FAILED, {error})
HandleWebhookCatch(h, error) ==
    /\ hooks[h].pc = "save"
    /\ tasks' = UpdateTaskStatus(tasks, hooks[h].taskId, FAILED, [error |-> error], now)
    /\ hooks' = [hooks EXCEPT ![h] = [IdleHook EXCEPT !.pc = "done",
                                        !.taskId = hooks[h].taskId,
                                        !.signature = hooks[h].signature,
                                        !.rawBody = hooks[h].rawBody]]
    /\ UNCHANGED <<transcripts, trialUsages, anonTokens, balances, adm, jobs,
                   dupCount, wk, sweeper, now, ded, addc, deductLog, trialLog, balance0, fcall, webhookSecret, anonc, payments, stripe>>

\* handleWebhook: deductBalance(task.user_id, costMinutes), getBalance and checks
HandleWebhookDeductRead(h) ==
    /\ hooks[h].pc = "deduct"
    /\ LET cur == balances[hooks[h].row.user_id]
       IN IF DeductRefused(cur, CeilMinutes(hooks[h].duration))
          THEN hooks' = [hooks EXCEPT ![h].pc = HookAfter(hooks[h].row, "deduct")]
          ELSE hooks' = [hooks EXCEPT ![h].pc = "deductUpdate", ![h].cur = cur]
    /\ deductLog' = [deductLog EXCEPT ![hooks[h].taskId] = @ + 1]
    /\ UNCHANGED <<dbVars, adm, jobs, dupCount, wk, sweeper, now, ded, addc, trialLog, balance0, fcall, webhookSecret, anonc, payments, stripe>>

\* handleWebhook: deductBalance, the conditional update; its result is only logged
HandleWebhookDeductUpdate(h) ==
    /\ hooks[h].pc = "deductUpdate"
    /\ balances' = DeductWrite(balances, hooks[h].row.user_id, hooks[h].cur,
                               CeilMinutes(hooks[h].duration))
    /\ hooks' = [hooks EXCEPT ![h].pc = HookAfter(hooks[h].row, "deduct"),
                              ![h].cur = NoBalance]
    /\ UNCHANGED <<tasks, transcripts, trialUsages, anonTokens, adm, jobs, dupCount,
                   wk, sweeper, now, ded, addc, deductLog, trialLog, balance0, fcall, webhookSecret, anonc, payments, stripe>>

\* handleWebhook: recordTrialUsage, insert into trial_usages
HandleWebhookRecordTrial(h) ==
    /\ hooks[h].pc = "trial"
    /\ trialUsages' = InsertTrialUsage(trialUsages, hooks[h].row.user_id,
                                       hooks[h].row.anon_id)
    /\ trialLog' = [trialLog EXCEPT ![hooks[h].taskId] =
                      IF TrialUsageInsertable(hooks[h].row.anon_id) THEN @ + 1 ELSE @]
    /\ hooks' = [hooks EXCEPT ![h].pc = HookAfter(hooks[h].row, "trial")]
    /\ UNCHANGED <<tasks, transcripts, anonTokens, balances, adm, jobs, dupCount,
                   wk, sweeper, now, ded, addc, deductLog, balance0, fcall, webhookSecret, anonc, payments, stripe>>

\* handleWebhook: recordTrialUsage, upsert of the anon token
HandleWebhookFlagAnon(h) ==
    /\ hooks[h].pc = "flag"
    /\ anonTokens' = UpsertAnonToken(anonTokens, hooks[h].row.anon_id)
    /\ hooks' = [hooks EXCEPT ![h].pc = "succeed"]
    /\ UNCHANGED <<tasks, transcripts, trialUsages, balances, adm, jobs, dupCount,
                   wk, sweeper, now, ded, addc, deductLog, trialLog, balance0, fcall, webhookSecret, anonc, payments, stripe>>

\* handleWebhook: tasksService.updateTaskStatus(taskId, SUCCEEDED, {...})
HandleWebhookSucceed(h) ==
    /\ hooks[h].pc = "succeed"
    /\ tasks' = UpdateTaskStatus(tasks, hooks[h].taskId, SUCCEEDED,
                    [duration_sec |-> hooks[h].duration,
                     cost_minutes |-> CeilMinutes(hooks[h].duration)], now)
    /\ hooks' = [hooks EXCEPT ![h] = [IdleHook EXCEPT !.pc = "done",
                                        !.taskId = hooks[h].taskId,
                                        !.signature = hooks[h].signature,
                                        !.rawBody = hooks[h].rawBody]]
    /\ UNCHANGED <<transcripts, trialUsages, anonTokens, balances, adm, jobs,
                   dupCount, wk, sweeper, now, ded, addc, deductLog, trialLog, balance0, fcall, webhookSecret, anonc, payments, stripe>>

\* Stripe events: the id determines type, customer and invoice amount (cents)
INVOICE_PAID == "invoice.paid"
SUBSCRIPTION_UPDATED == "subscription.updated"
StripeCustomer == "cus_1"
NoEvent == [id |-> NULL, type |-> NULL, customer |-> NULL, amount_paid |-> 0]
StripeEvents ==
    { [id |-> "evt_1", type |-> "invoice.paid", customer |-> StripeCustomer,
       amount_paid |-> 10],
      [id |-> "evt_2", type |-> "invoice.paid", customer |-> StripeCustomer,
       amount_paid |-> 25],
      [id |-> "evt_3", type |-> "customer.subscription.updated",
       customer |-> StripeCustomer, amount_paid |-> 0],
      [id |-> "evt_4", type |-> "charge.succeeded", customer |-> StripeCustomer,
       amount_paid |-> 0] }

\* the payment row that ties the customer to the user before any invoice
PriorPaymentId == "evt_0"
PaymentIds == {e.id : e \in StripeEvents} \cup {PriorPaymentId}
NoPayment ==
    [row |-> FALSE, user_id |-> NULL, stripe_customer_id |-> NULL,
     event_type |-> NULL, minutes_delta |-> 0]

StripeHooks == 1..MaxStripeHooks
\* credited is history: the delivery's addBalance wrote the balance
IdleStripeHook ==
    [pc |-> "idle", event |-> NoEvent, userId |-> NULL, minutesDelta |-> 0,
     cur |-> NoBalance, credited |-> FALSE, result |-> NULL]

\* a call of getOrCreateAnonToken, recordTrialUsage or bindTrialToUser
IdleAnonCall ==
    [pc |-> "idle", op |-> "none", userId |-> NULL, anonId |-> NULL,
     ipHash |-> EmptyHash, uaHash |-> EmptyHash, variant |-> "none",
     result |-> NULL]

\* ------------------------------------------------------ initial database
UsageKeys == {<<c.id, c.anonId>> : c \in Callers}

\* handle_new_user creates the balance row; a paid invoice has added minutes
InitBalanceOfUser == 2


InitIdleCalls ==
    /\ adm = [a \in Adm |-> IdleAdm]
    /\ jobs = [t \in TaskIds |-> NoJob]
    /\ dupCount = 0
    /\ wk = [w \in Workers |-> IdleWorker]
    /\ sweeper = IdleSweeper
    /\ now = 0
    /\ hooks = [h \in Hooks |-> IdleHook]
    /\ ded = [d \in DeductCalls |-> IdleDeduct]
    /\ addc = [d \in AddCalls |-> IdleAdd]
    /\ deductLog = [t \in TaskIds |-> 0]
    /\ trialLog = [t \in TaskIds |-> 0]
    /\ balance0 = balances
    /\ fcall = NoCall
    /\ webhookSecret = NoSecret
    /\ anonc = [c \in AnonCalls |-> IdleAnonCall]
    /\ payments = [e \in PaymentIds |-> NoPayment]
    /\ stripe = [s \in StripeHooks |-> IdleStripeHook]

Init ==
    /\ tasks = [t \in TaskIds |-> NoTask]
    /\ transcripts = [t \in TaskIds |-> 0]
    /\ trialUsages = [k \in UsageKeys |-> 0]
    /\ anonTokens = [a \in AnonIds |-> NoAnonToken]
    /\ balances = [u \in UserIds |-> [row |-> TRUE, minutes_balance |-> InitBalanceOfUser]]
    /\ InitIdleCalls

\* ------------------------------------------------- lifecycle specification
\* admission, dispatcher (retries, duplicate deliveries) and executor
AdmissionNext ==
    \/ \E a \in Adm, req \in Requests : CreateTaskGates(a, req)
    \/ \E a \in Adm : CreateTaskConcurrencyGate(a)
    \/ \E a \in Adm : CreateTaskInsert(a)
    \/ \E a \in Adm : CreateTaskEnqueue(a)

ExecutorNext ==
    \/ \E w \in Workers, t \in TaskIds : Deliver(w, t)
    \/ \E w \in Workers, duration \in Durations, status \in SupadataStatuses :
          ProcessTaskTranscribe(w, duration, status)
    \/ \E w \in Workers, error \in Errors : ProcessTaskCatch(w, error)
    \/ \E w \in Workers : ProcessTaskSucceed(w)
    \/ \E w \in Workers : ProcessTaskRecordTrial(w)
    \/ \E w \in Workers : ProcessTaskFlagAnon(w)

Next ==
    \/ AdmissionNext
    \/ ExecutorNext
    \/ \E w \in Workers, t \in TaskIds : DeliverDuplicate(w, t)

Spec == Init /\ [][Next]_vars

\* ---------------------------------------------------- sweeper specification
\* the row CreateTaskInsert writes for a request
PendingRow(req) ==
    [status |-> PENDING, user_id |-> req.user.id, anon_id |-> req.user.anonId,
     source_type |-> req.source_type,
     is_trial |-> (req.is_trial \/ ~req.user.isAuthenticated),
     priority |-> IF req.is_trial \/ ~req.user.isAuthenticated THEN FREE ELSE PAID,
     error |-> NULL, duration_sec |-> NoValue, cost_minutes |-> NoValue,
     updated_at |-> 0]

\* Starts after admission: tasks of distinct owners are pending with their jobs
\* waiting.  Executor (with retries), clock and sweeper run from there.
InitSweep ==
    /\ \E reqs \in [TaskIds -> Requests] :
         /\ \A t1, t2 \in TaskIds : t1 /= t2 => reqs[t1].user /= reqs[t2].user
         /\ tasks = [t \in TaskIds |-> PendingRow(reqs[t])]
    /\ transcripts = [t \in TaskIds |-> 0]
    /\ trialUsages = [k \in UsageKeys |-> 0]
    /\ anonTokens = [a \in AnonIds |-> NoAnonToken]
    /\ balances = [u \in UserIds |-> [row |-> TRUE, minutes_balance |-> InitBalanceOfUser]]
    /\ adm = [a \in Adm |-> [IdleAdm EXCEPT !.pc = "done", !.result = "task_id"]]
    /\ jobs = [t \in TaskIds |->
                 [state |-> "waiting", attemptsMade |-> 0, owner |-> 0,
                  priority |-> QueuePriority(tasks[t].priority)]]
    /\ dupCount = 0
    /\ wk = [w \in Workers |-> IdleWorker]
    /\ sweeper = IdleSweeper
    /\ now = 0
    /\ hooks = [h \in Hooks |-> IdleHook]
    /\ ded = [d \in DeductCalls |-> IdleDeduct]
    /\ addc = [d \in AddCalls |-> IdleAdd]
    /\ deductLog = [t \in TaskIds |-> 0]
    /\ trialLog = [t \in TaskIds |-> 0]
    /\ balance0 = balances
    /\ fcall = NoCall
    /\ webhookSecret = NoSecret
    /\ anonc = [c \in AnonCalls |-> IdleAnonCall]
    /\ payments = [e \in PaymentIds |-> NoPayment]
    /\ stripe = [s \in StripeHooks |-> IdleStripeHook]

SweepNext ==
    \/ ExecutorNext
    \/ CleanupSelect
    \/ CleanupUpdate
    \/ Tick

SpecSweep == InitSweep /\ [][SweepNext]_vars

\* --------------------------------------------------- webhook specification
\* One task is in flight (processing) in asynchronous mode; its completion
\* webhook is delivered up to MaxHooks times, in any interleaving.
HookTask == CHOOSE t \in TaskIds : \A t2 \in TaskIds : t <= t2

InitWebhook ==
    /\ \E req \in Requests, b \in 0..MaxInitBalance :
         /\ tasks = [t \in TaskIds |->
                       IF t = HookTask
                       THEN [PendingRow(req) EXCEPT !.status = PROCESSING]
                       ELSE NoTask]
         /\ balances = [u \in UserIds |-> [row |-> TRUE, minutes_balance |-> b]]
    /\ transcripts = [t \in TaskIds |-> 0]
    /\ trialUsages = [k \in UsageKeys |-> 0]
    /\ anonTokens = [a \in AnonIds |-> NoAnonToken]
    /\ adm = [a \in Adm |-> IF a = HookTask
                            THEN [IdleAdm EXCEPT !.pc = "done", !.result = "task_id"]
                            ELSE IdleAdm]
    /\ jobs = [t \in TaskIds |-> NoJob]
    /\ dupCount = 0
    /\ wk = [w \in Workers |-> IdleWorker]
    /\ sweeper = IdleSweeper
    /\ now = 0
    /\ hooks = [h \in Hooks |-> IdleHook]
    /\ ded = [d \in DeductCalls |-> IdleDeduct]
    /\ addc = [d \in AddCalls |-> IdleAdd]
    /\ deductLog = [t \in TaskIds |-> 0]
    /\ trialLog = [t \in TaskIds |-> 0]
    /\ balance0 = balances
    /\ fcall = NoCall
    /\ webhookSecret \in WebhookSecrets
    /\ anonc = [c \in AnonCalls |-> IdleAnonCall]
    /\ payments = [e \in PaymentIds |-> NoPayment]
    /\ stripe = [s \in StripeHooks |-> IdleStripeHook]

WebhookNext ==
    \/ \E h \in Hooks, duration \in HookDurations,
             signature \in Signatures, rawBody \in RawBodies :
          HandleWebhookRead(h, HookTask, duration, signature, rawBody)
    \/ \E h \in Hooks : HandleWebhookSave(h)
    \/ \E h \in Hooks, error \in Errors : HandleWebhookCatch(h, error)
    \/ \E h \in Hooks : HandleWebhookDeductRead(h)
    \/ \E h \in Hooks : HandleWebhookDeductUpdate(h)
    \/ \E h \in Hooks : HandleWebhookRecordTrial(h)
    \/ \E h \in Hooks : HandleWebhookFlagAnon(h)
    \/ \E h \in Hooks : HandleWebhookSucceed(h)

SpecWebhook == InitWebhook /\ [][WebhookNext]_vars

\* --------------------------------------------------- billing specifications
BillingUser == "u1"

InitBilling ==
    /\ \E row \in BOOLEAN, b \in 0..MaxInitBalance :
         /\ row \/ b = 0
         /\ balances = [u \in UserIds |-> [row |-> row, minutes_balance |-> b]]
    /\ tasks = [t \in TaskIds |-> NoTask]
    /\ transcripts = [t \in TaskIds |-> 0]
    /\ trialUsages = [k \in UsageKeys |-> 0]
    /\ anonTokens = [a \in AnonIds |-> NoAnonToken]
    /\ InitIdleCalls

DeductNext ==
    \/ \E d \in DeductCalls, m \in 0..MaxMinutes : DeductBalanceRead(d, BillingUser, m)
    \/ \E d \in DeductCalls : DeductBalanceUpdate(d, BillingUser)

AddNext ==
    \/ \E d \in AddCalls, m \in 0..MaxMinutes : AddBalanceRead(d, BillingUser, m)
    \/ \E d \in AddCalls : AddBalanceUpdate(d, BillingUser)
    \/ \E d \in AddCalls : AddBalanceInsert(d, BillingUser)

\* concurrent deductBalance calls only
SpecDeduct == InitBilling /\ [][DeductNext]_vars

\* concurrent deductBalance and addBalance calls
BillingNext == DeductNext \/ AddNext

SpecBilling == InitBilling /\ [][BillingNext]_vars

\* ================================================================ claims
Active == {PENDING, PROCESSING}
Terminal == {SUCCEEDED, FAILED}

ForwardSteps ==
    { <<NULL, PENDING>>, <<PENDING, PROCESSING>>,
      <<PROCESSING, SUCCEEDED>>, <<PROCESSING, FAILED>> }

\* C1: a task's status only moves pending -> processing -> succeeded | failed;
\* it never leaves a terminal status and never returns to an earlier one.
C1_StatusOnlyMovesForward ==
    [][\A t \in TaskIds :
          \/ tasks'[t].status = tasks[t].status
          \/ <<tasks[t].status, tasks'[t].status>> \in ForwardSteps]_vars

\* C2: at every instant every owner has at most one pending or processing task.
C2_OneActiveTaskPerOwner ==
    \A c \in Callers : Cardinality(PendingTasksOf(c)) <= 1

\* C3: of two createTask calls of one owner that raced through the concurrency
\* gate, exactly one returns a task_id and the other fails with CONFLICT.
C3_RaceAdmitsExactlyOne ==
    \A a, b \in Adm :
        (a /= b /\ b \in adm[a].racedWith /\ adm[a].pc = "done" /\ adm[b].pc = "done")
            => {adm[a].result, adm[b].result} = {"task_id", "CONFLICT"}

\* C4: a consumer that receives a job another consumer is already running
\* aborts: it starts no work and leaves the task row as it is.
C4_DuplicateDeliveryAborts ==
    [][\A w \in Workers, t \in TaskIds :
          (/\ jobs[t].state = "active"
           /\ jobs[t].owner /= w
           /\ jobs'[t].owner = w)
              => (wk'[w].pc = "idle" /\ tasks'[t] = tasks[t])]_vars

\* C5: once a task is succeeded or failed, no later step changes its status,
\* error, duration_sec or cost_minutes.
C5_TerminalRowImmutable ==
    [][\A t \in TaskIds :
          tasks[t].status \in Terminal =>
              /\ tasks'[t].status = tasks[t].status
              /\ tasks'[t].error = tasks[t].error
              /\ tasks'[t].duration_sec = tasks[t].duration_sec
              /\ tasks'[t].cost_minutes = tasks[t].cost_minutes]_vars

\* C6: a succeeded non-trial task of an authenticated user with cost_minutes > 0
\* has had its balance deduction attempted exactly once.
C6_PaidTaskDeductedOnce ==
    \A t \in TaskIds :
        (/\ tasks[t].status = SUCCEEDED
         /\ ~tasks[t].is_trial
         /\ tasks[t].user_id /= NULL
         /\ tasks[t].cost_minutes > 0)
            => deductLog[t] = 1

\* C7: however often and however concurrently the completion webhook of one
\* task is delivered, deductBalance runs at most once for that task.
C7_WebhookDeductsAtMostOnce ==
    \A t \in TaskIds : deductLog[t] <= 1

\* C8: no interleaving of deductBalance (and addBalance) calls with amounts >= 0
\* leaves minutes_balance below zero.
C8_BalanceNeverNegative ==
    \A u \in UserIds : balances[u].minutes_balance >= 0

\* C8 witness: deductBalance calls have run to the end, one returned true and
\* the balance went down to exactly zero.
C8_Witness ==
    /\ \A d \in DeductCalls : ded[d].pc = "done"
    /\ \E d \in DeductCalls : ded[d].result = "true" /\ ded[d].minutes > 0
    /\ balances[BillingUser].minutes_balance = 0

\* sum of the minutes of the deductBalance calls that returned true
RECURSIVE SumDeducted(_)
SumDeducted(D) ==
    IF D = {} THEN 0
    ELSE LET d == CHOOSE x \in D : TRUE
         IN (IF ded[d].result = "true" THEN ded[d].minutes ELSE 0)
            + SumDeducted(D \ {d})

\* C9: concurrent deductions are linearizable: when all deductBalance calls have
\* returned, the balance is the initial one minus the minutes of the calls that
\* returned true.
C9_DeductionsLinearizable ==
    (\A d \in DeductCalls : ded[d].pc \in {"idle", "done"})
        => balances[BillingUser].minutes_balance
             = balance0[BillingUser].minutes_balance - SumDeducted(DeductCalls)

\* the deductBalance calls that have returned
DeductDone == {d \in DeductCalls : ded[d].pc = "done"}

\* exactly two deductBalance(user, m) calls ran, on a balance b with m <= b < 2m
TwoDeductsOfM ==
    /\ Cardinality(DeductDone) = 2
    /\ \A d \in DeductCalls \ DeductDone : ded[d].pc = "idle"
    /\ balance0[BillingUser].row
    /\ \A d1, d2 \in DeductDone : ded[d1].minutes = ded[d2].minutes
    /\ \A d \in DeductDone :
         /\ ded[d].minutes <= balance0[BillingUser].minutes_balance
         /\ balance0[BillingUser].minutes_balance < 2 * ded[d].minutes

\* C10: for m <= b < 2m, two concurrent deductBalance(user, m) calls end, under
\* every interleaving, with exactly one returning true and the balance b - m.
C10_DeductRaceOneWinner ==
    TwoDeductsOfM =>
        /\ Cardinality({d \in DeductDone : ded[d].result = "true"}) = 1
        /\ \A d \in DeductDone :
             balances[BillingUser].minutes_balance
                = balance0[BillingUser].minutes_balance - ded[d].minutes

\* C10 witness: the two calls raced, both read the initial balance before either
\* wrote, and one won.
C10_Witness ==
    /\ TwoDeductsOfM
    /\ \A d \in DeductDone : ded[d].cur = balance0[BillingUser]
    /\ \E d \in DeductDone : ded[d].result = "true"
    /\ \E d \in DeductDone : ded[d].result = "false"

\* C11: a deductBalance(user, m) step taken while the user has no balance row or
\* minutes_balance < m ends the call with false and leaves the balances unchanged.
C11_RefusedDeductChangesNothing ==
    [][\A d \in DeductCalls :
          (/\ ded'[d] /= ded[d]
           /\ \/ ~balances[BillingUser].row
              \/ balances[BillingUser].minutes_balance < ded'[d].minutes)
              => /\ ded'[d].pc = "done"
                 /\ ded'[d].result = "false"
                 /\ balances' = balances]_vars

\* C11 witness: two calls raced; one deducted, the other had passed its read
\* check, found the balance below its amount at the update and returned false.
C11_Witness ==
    \E d1, d2 \in DeductCalls :
        /\ d1 /= d2
        /\ ded[d1].pc = "done" /\ ded[d1].result = "true" /\ ded[d1].minutes > 0
        /\ ded[d2].pc = "done" /\ ded[d2].result = "false"
        /\ ded[d2].cur.row /\ ded[d2].cur.minutes_balance >= ded[d2].minutes

\* task t is settled: terminal, its job completed or out of attempts, and no
\* consumer is still running it
Settled(t) ==
    /\ tasks[t].status \in Terminal
    /\ jobs[t].state \in {"completed", "failed"}
    /\ \A w \in Workers : wk[w].task /= t

\* C12: for every trial task that has reached a terminal state, exactly one
\* TrialUsage row has been appended for it and hasUsedTrial of its owner is true.
C12_TrialTaskRecordedOnce ==
    \A t \in TaskIds :
        (tasks[t].is_trial /\ Settled(t))
            => /\ trialLog[t] = 1
               /\ HasUsedTrial(tasks[t].user_id, tasks[t].anon_id)

\* the succeeded trial tasks of caller c
SucceededTrialsOf(c) ==
    {t \in TaskIds : /\ tasks[t].status = SUCCEEDED
                     /\ tasks[t].is_trial
                     /\ tasks[t].user_id = c.id
                     /\ tasks[t].anon_id = c.anonId}

\* C13: a trial is one-shot: at most one trial task of an owner ever reaches
\* succeeded, whatever the interleaving of admissions and executions.
C13_TrialIsOneShot ==
    \A c \in Callers : Cardinality(SucceededTrialsOf(c)) <= 1

\* caller c has consumed a trial: a TrialUsage row of the user exists, or the
\* anon token of the anon id has used_trial set
ConsumedTrial(c) ==
    \/ c.id /= NULL /\ UsageRowsOfUser(c.id) >= 1
    \/ c.anonId /= NULL /\ anonTokens[c.anonId].row /\ anonTokens[c.anonId].used_trial

\* C14: a createTask call with effective trial whose caller has consumed a trial
\* never passes the trial gate, and the call that fails with TRIAL_EXHAUSTED
\* inserts no task row and enqueues no job.
C14_ConsumedTrialIsRejected ==
    [][\A a \in Adm :
          /\ (/\ adm[a].pc = "idle"
              /\ adm'[a].pc = "gated"
              /\ (adm'[a].is_trial \/ ~adm'[a].user.isAuthenticated))
                 => ~ConsumedTrial(adm'[a].user)
          /\ (adm[a].pc = "idle" /\ adm'[a].result = "TRIAL_EXHAUSTED")
                 => (tasks' = tasks /\ jobs' = jobs)]_vars

\* ------------------------------------------------ hasUsedTrial specification
MaxUsageRows == 2    \* trial_usages rows per owner in the initial database

\* AuthService.hasUsedTrial(userId, anonId) is called once on a database with any
\* trial_usages rows and any anon token
HasUsedTrialCall(userId, anonId) ==
    /\ fcall = NoCall
    /\ fcall' = [op |-> "hasUsedTrial", userId |-> userId, anonId |-> anonId,
                result |-> HasUsedTrial(userId, anonId)]
    /\ UNCHANGED <<dbVars, adm, jobs, dupCount, wk, sweeper, now, hooks, ded, addc,
                   deductLog, trialLog, balance0, webhookSecret, anonc, payments, stripe>>

InitTrialCheck ==
    /\ trialUsages \in [UsageKeys -> 0..MaxUsageRows]
    /\ \E row \in BOOLEAN, used \in BOOLEAN :
         /\ row \/ ~used
         /\ anonTokens = [a \in AnonIds |-> [row |-> row, used_trial |-> used,
                                           ip_hash |-> EmptyHash, ua_hash |-> EmptyHash]]
    /\ tasks = [t \in TaskIds |-> NoTask]
    /\ transcripts = [t \in TaskIds |-> 0]
    /\ balances = [u \in UserIds |-> [row |-> TRUE, minutes_balance |-> InitBalanceOfUser]]
    /\ InitIdleCalls

TrialCheckNext ==
    \E userId \in UserIds \cup {NULL}, anonId \in AnonIds \cup {NULL} :
        HasUsedTrialCall(userId, anonId)

SpecTrialCheck == InitTrialCheck /\ [][TrialCheckNext]_vars

\* C15: hasUsedTrial(user_id, anon_id) is true iff a TrialUsage row exists for
\* the user or the anon token of anon_id has used_trial set, for every
\* combination of present and absent ids.
C15_HasUsedTrialIsUserOrAnon ==
    fcall.op = "hasUsedTrial" =>
        (fcall.result <=> ConsumedTrial([id |-> fcall.userId, anonId |-> fcall.anonId]))

\* ------------------------------------------------- transcript specification
MaxDuration == 20    \* longest duration (seconds / 10) a provider reports

\* durations in steps of 10 seconds around the minute boundaries
ReportedDurations == {10 * k : k \in 0..MaxDuration}

\* SupadataService.getTranscript(url, lang, mode) answers with the given status
\* and duration; processTask's cost routing for a youtube task prices the result
GetTranscriptCall(mode, status, duration) ==
    /\ fcall = NoCall
    /\ LET isGenerated == GetTranscriptIsGenerated(mode, status)
       IN fcall' = [op |-> "getTranscript", mode |-> mode, status |-> status,
                    duration |-> duration, isGenerated |-> isGenerated,
                    costMinutes |-> CostMinutes(YOUTUBE, duration, isGenerated)]
    /\ UNCHANGED <<dbVars, adm, jobs, dupCount, wk, sweeper, now, hooks, ded, addc,
                   deductLog, trialLog, balance0, webhookSecret, anonc, payments, stripe>>

TranscriptNext ==
    \E mode \in SupadataModes, status \in SupadataStatuses,
       duration \in ReportedDurations : GetTranscriptCall(mode, status, duration)

SpecTranscript == Init /\ [][TranscriptNext]_vars

\* C16: in auto mode a synchronous answer (200 with content) yields
\* is_generated = false and cost_minutes = 0; an answer that took the async path
\* (202, then polling) yields is_generated = true and cost_minutes = ceil(duration / 60).
C16_AutoModeCostFollowsPath ==
    (fcall.op = "getTranscript" /\ fcall.mode = "auto") =>
        IF fcall.status = 200
        THEN ~fcall.isGenerated /\ fcall.costMinutes = 0
        ELSE fcall.isGenerated /\ fcall.costMinutes = CeilMinutes(fcall.duration)

\* C17: whenever a task is succeeded exactly one Transcript row with its task_id
\* exists; a retried or duplicate execution never creates a second row.
C17_SucceededHasOneTranscript ==
    \A t \in TaskIds : tasks[t].status = SUCCEEDED => transcripts[t] = 1

\* C17 witness: two consumers have both executed task t and saved its
\* transcript, and the task is succeeded.
C17_Witness ==
    \E t \in TaskIds, w1, w2 \in Workers :
        /\ w1 /= w2
        /\ tasks[t].status = SUCCEEDED
        /\ wk[w1].task = t /\ wk[w1].pc = "record"
        /\ wk[w2].task = t /\ wk[w2].pc \in {"succeed", "record"}
        /\ transcripts[t] = 1

\* the tasks that are processing with updated_at older than now minus 10 minutes
TimedOut == {t \in TaskIds : /\ tasks[t].status = PROCESSING
                             /\ now - tasks[t].updated_at > 10}

\* the row of t as a sweep must leave it: failed with a non-empty error
MarkedFailed(t) ==
    /\ tasks'[t].status = FAILED
    /\ tasks'[t].error /= NULL
    /\ \A f \in DOMAIN tasks[t] \ {"status", "error", "updated_at"} :
          tasks'[t][f] = tasks[t][f]

\* C18: one sweep during which nothing else runs marks exactly the tasks failed
\* (with a non-empty error) that are processing with updated_at older than now
\* minus 10 minutes, and leaves every other task unchanged.
C18_SweepFailsExactlyTheStuckTasks ==
    [][/\ (sweeper.pc = "idle" /\ sweeper'.pc = "idle" /\ sweeper'.at /= sweeper.at)
            => (TimedOut = {} /\ tasks' = tasks)
       /\ (/\ sweeper.pc = "update" /\ sweeper'.pc = "idle"
           /\ sweeper.seen = tasks /\ sweeper.at = now)
            => \A t \in TaskIds :
                  IF t \in TimedOut THEN MarkedFailed(t) ELSE tasks'[t] = tasks[t]]_vars

\* C18 witness: a sweep has just failed a task that was processing for more than
\* 10 minutes and left alone a task that is processing for less.
C18_Witness ==
    /\ sweeper.pc = "idle" /\ sweeper.at = now
    /\ \E t1, t2 \in TaskIds :
         /\ tasks[t1].status = FAILED /\ tasks[t1].error = "TIMEOUT"
         /\ tasks[t1].updated_at = now
         /\ tasks[t2].status = PROCESSING /\ tasks[t2].updated_at < now

\* C19: under any interleaving with the executor, the sweeper's update changes a
\* task only if at that moment the task is processing and timed out, and fails
\* every selected task that still is; it never turns a succeeded task into failed.
C19_SweepFailsOnlyStuckAtUpdate ==
    [][(sweeper.pc = "update" /\ sweeper'.pc = "idle")
          => \A t \in TaskIds :
                /\ tasks'[t] /= tasks[t] => t \in TimedOut
                /\ (t \in sweeper.taskIds /\ t \in TimedOut) => tasks'[t].status = FAILED]_vars

\* ------------------------------------------- admission with storage faults
\* createTask calls on a database with any trial records and any balance; a gate
\* query may return an error instead of data
InitAdmit ==
    /\ trialUsages \in [UsageKeys -> 0..MaxUsageRows]
    /\ \E used \in BOOLEAN :
         anonTokens = [a \in AnonIds |-> [row |-> used, used_trial |-> used,
                                           ip_hash |-> EmptyHash, ua_hash |-> EmptyHash]]
    /\ \E row \in BOOLEAN, b \in {0, InitBalanceOfUser} :
         /\ row \/ b = 0
         /\ balances = [u \in UserIds |-> [row |-> row, minutes_balance |-> b]]
    /\ tasks = [t \in TaskIds |-> NoTask]
    /\ transcripts = [t \in TaskIds |-> 0]
    /\ InitIdleCalls

\* an authenticated caller who also sends the x-anon-id header
UserAnon1 == [id |-> "u1", anonId |-> "a1", isAuthenticated |-> TRUE]

\* further requests: trial admissions of YouTube links with every lookup
\* outcome, and requests of the caller with both ids
AdmitRequests ==
    { [user |-> u, is_trial |-> TRUE, source_type |-> YOUTUBE, video |-> v] :
         u \in {User1, Anon1}, v \in VideoLookups }
    \cup { [user |-> UserAnon1, is_trial |-> t, source_type |-> UPLOAD,
            video |-> ShortVideo] : t \in BOOLEAN }

AdmitNext ==
    \/ AdmissionNext
    \/ \E a \in Adm, req \in AdmitRequests : CreateTaskGates(a, req)
    \/ \E a \in Adm, req \in Requests : CreateTaskGatesQueryError(a, req)
    \/ \E a \in Adm : CreateTaskConcurrencyGateQueryError(a)

SpecAdmit == InitAdmit /\ [][AdmitNext]_vars

\* C20: admission fails closed: a createTask call whose trial-gate or
\* concurrency-gate query returned an error is rejected, and neither a task row
\* nor a job exists for it.
C20_AdmissionFailsClosed ==
    \A a \in Adm :
        adm[a].queryFailed =>
            /\ adm[a].pc = "done"
            /\ adm[a].result /= "task_id"
            /\ tasks[a].status = NULL
            /\ jobs[a] = NoJob

\* createTask call a was rejected with the given code and left no row and no job
RejectedWith(a, code) ==
    /\ adm[a].pc = "done"
    /\ adm[a].result = code
    /\ tasks[a].status = NULL
    /\ jobs[a] = NoJob

\* C21: a trial admission of a YouTube link is rejected with DURATION_EXCEEDED
\* when the video is longer than 30 minutes, and with INVALID_INPUT whenever the
\* lookup fails (no video id, no such video, or the metadata call errors); no task
\* row is inserted and no job enqueued.
C21_VideoGateRejects ==
    \A a \in Adm :
        LET l == adm[a].lookup
        IN /\ (l.kind = "found" /\ l.duration > 30 * 60)
                 => RejectedWith(a, "DURATION_EXCEEDED")
           /\ l.kind \in {"no_id", "not_found", "api_error"}
                 => RejectedWith(a, "INVALID_INPUT")

\* a createTask call of an authenticated caller that is not a trial
PaidCall(a) ==
    \/ /\ adm[a].pc \in {"gated", "insert", "enqueue"}
       /\ adm[a].user.isAuthenticated /\ ~adm[a].is_trial
    \/ /\ tasks[a].status /= NULL
       /\ tasks[a].user_id /= NULL /\ ~tasks[a].is_trial

\* C22: a non-trial createTask of an authenticated caller fails with
\* INSUFFICIENT_BALANCE, inserting no row, exactly when the caller has no balance
\* row or minutes_balance <= 0; any positive balance passes the gate.
C22_BalanceGate ==
    \A a \in Adm :
        /\ adm[a].result = "INSUFFICIENT_BALANCE"
              => /\ \/ ~balances[BillingUser].row
                    \/ balances[BillingUser].minutes_balance <= 0
                 /\ RejectedWith(a, "INSUFFICIENT_BALANCE")
        /\ PaidCall(a)
              => /\ balances[BillingUser].row
                 /\ balances[BillingUser].minutes_balance > 0

\* C22 witness: a paid call was refused although the caller has a balance row,
\* because its minutes_balance is 0.
C22_Witness ==
    \E a \in Adm :
        /\ adm[a].result = "INSUFFICIENT_BALANCE"
        /\ balances[BillingUser].row /\ balances[BillingUser].minutes_balance = 0

\* C23: every admitted task is persisted with is_trial = (request.is_trial or
\* caller not authenticated) and priority paid iff the caller is authenticated
\* and not trial, else free; an authenticated caller with is_trial = true is
\* treated as trial and skips the balance gate; the job's queue priority is
\* numerically smaller for paid than for free.
C23_TrialFlagAndPriority ==
    /\ \A a \in Adm :
          adm[a].pc = "enqueue" =>
              /\ tasks[a].is_trial = (adm[a].is_trial \/ ~adm[a].user.isAuthenticated)
              /\ tasks[a].priority =
                    IF adm[a].user.isAuthenticated /\ ~adm[a].is_trial THEN PAID ELSE FREE
    /\ \A a \in Adm :
          adm[a].result = "INSUFFICIENT_BALANCE"
              => (adm[a].user.isAuthenticated /\ ~adm[a].is_trial)
    /\ \A t \in TaskIds :
          (tasks[t].status /= NULL /\ tasks[t].user_id /= NULL /\ tasks[t].is_trial)
              => tasks[t].priority = FREE
    /\ \A t1, t2 \in TaskIds :
          (/\ jobs[t1].state /= "none" /\ jobs[t2].state /= "none"
           /\ tasks[t1].priority = PAID /\ tasks[t2].priority = FREE)
              => jobs[t1].priority < jobs[t2].priority

\* C23 witness: an authenticated caller without balance was admitted as trial
\* next to a paid task, and both jobs are enqueued.
C23_Witness ==
    \E t1, t2 \in TaskIds :
        /\ jobs[t1].state = "waiting" /\ jobs[t2].state = "waiting"
        /\ tasks[t1].priority = PAID
        /\ tasks[t2].user_id /= NULL /\ tasks[t2].is_trial /\ tasks[t2].priority = FREE

\* C24: every persisted task row has exactly one of user_id and anon_id set,
\* for every caller context the auth guard lets through.
C24_ExactlyOneOwnerId ==
    \A t \in TaskIds :
        tasks[t].status /= NULL
            => ((tasks[t].user_id /= NULL) /= (tasks[t].anon_id /= NULL))

\* C25: dispatcher retries are transparent: while the job of a task is waiting
\* for an attempt or running one, the task is not observable as failed; failed
\* is recorded only when the final attempt fails.
C25_RetriesAreTransparent ==
    \A t \in TaskIds :
        jobs[t].state \in {"waiting", "active"} => tasks[t].status /= FAILED

\* ---------------------------------------------------------------- C26
\* a delivery is authentic when it carries a signature equal to the HMAC of
\* its raw body under the configured secret
Authentic(h) ==
    /\ hooks[h].signature /= NoSignature
    /\ hooks[h].rawBody /= NoRawBody
    /\ webhookSecret /= NoSecret
    /\ hooks[h].signature.hex = Hmac(hooks[h].rawBody, webhookSecret)

\* C26: signature verification is mandatory: a received delivery whose
\* dg-signature is missing or does not match the HMAC of the raw body is
\* rejected, so it never reaches a step that writes task, transcript, balance
\* or trial state, whatever secret the server is configured with.
C26_UnsignedDeliveryIsRejected ==
    \A h \in Hooks :
        (hooks[h].pc /= "idle" /\ ~Authentic(h)) => hooks[h].pc = "rejected"

\* ------------------------------------------------ polling specification
\* pollJob(jobId, isGenerated, maxAttempts = 120, intervalMs = 5000)
POLL_MAX_ATTEMPTS == 120

\* what a poll request may be answered with: a non-ok HTTP status, a body with
\* status 'active', a body with a content field, a body with neither
PollResponses == {"not_ok", "active", "content", "other"}

\* the messages of the errors pollJob throws
PollJobFailedError == "Supadata job failed"
PollJobTimeoutError == "Supadata job timeout after 120 attempts"

\* the worker and task of the polling specification
PollWorker == CHOOSE w \in Workers : \A w2 \in Workers : w <= w2
PollTask == HookTask

\* for (attempt = 1; attempt <= maxAttempts; attempt++): the loop is left when
\* the attempts are used up
PollLoopEndsOneLate(attempt) == attempt > POLL_MAX_ATTEMPTS

PollLoopEnds(attempt) == attempt >= POLL_MAX_ATTEMPTS

\* outcomes of the chat completion the LLM merge makes
LlmFailures == {"network_failure", "empty_response", "invalid_shape"}
LlmOutcomes == {"ok"} \cup LlmFailures

\* the two OpenAIService sources of the repository: mergeTranscriptSegments
\* that catches and returns its input, and processSegments that rethrows
OpenAIVariants == {"mergeTranscriptSegments", "processSegments"}

LlmMergeError == "merge failed"

\* content of a Supadata response: plain text or a chunk array
ContentKinds == {"string", "chunks"}

NoParse == [content |-> "chunks", available |-> FALSE, llm |-> "ok",
            variant |-> "processSegments"]

ParseInputs ==
    [content : ContentKinds, available : BOOLEAN, llm : LlmOutcomes,
     variant : OpenAIVariants]

\* OpenAIService.mergeTranscriptSegments(rawSegments): which segments it yields
\* ("llm": the model's, "raw": its input unchanged) or the error it throws
MergeTranscriptSegments(variant, llm) ==
    IF llm = "ok" THEN [segments |-> "llm", error |-> NULL]
    ELSE IF variant = "mergeTranscriptSegments"
    THEN [segments |-> "raw", error |-> NULL]
    ELSE [segments |-> "none", error |-> LlmMergeError]

\* parseResponse(data, isGenerated): text content gives one segment; chunks are
\* merged by the LLM if (isGenerated && isAvailable()), else by mergeSegments
ParseResponse(in, isGenerated) ==
    IF in.content = "string" THEN [segments |-> "text", error |-> NULL]
    ELSE IF isGenerated /\ in.available
    THEN MergeTranscriptSegments(in.variant, in.llm)
    ELSE [segments |-> "rule", error |-> NULL]

\* getTranscript received 202 {jobId} and calls pollJob
PollJobStart(w) ==
    /\ wk[w].pc = "provider"
    /\ tasks[wk[w].task].source_type = YOUTUBE
    /\ fcall = NoCall
    /\ fcall' = [op |-> "pollJob", state |-> "polling", requests |-> 0,
                 last |-> "none", error |-> NULL, segments |-> "none",
                 in |-> NoParse,
                 isGenerated |-> GetTranscriptIsGenerated("auto", 202)]
    /\ UNCHANGED <<dbVars, adm, jobs, dupCount, wk, sweeper, now, hooks, ded, addc,
                   deductLog, trialLog, balance0, webhookSecret, anonc, payments, stripe>>

\* pollJob: one iteration of the loop, sleep, fetch and the checks on the
\* response (content: return parseResponse(data, isGenerated)); after the last
\* iteration the loop is left and the timeout is thrown
PollJobRequest(response, in) ==
    /\ fcall.op = "pollJob"
    /\ fcall.state = "polling"
    /\ LET attempt == fcall.requests + 1
       IN fcall' =
            IF response = "not_ok"
            THEN [fcall EXCEPT !.requests = attempt, !.last = response,
                               !.state = "thrown", !.error = PollJobFailedError]
            ELSE IF response = "active" /\ ~PollLoopEnds(attempt)
            THEN [fcall EXCEPT !.requests = attempt, !.last = response]
            ELSE IF response = "content"
            THEN LET parsed == ParseResponse(in, fcall.isGenerated)
                 IN [fcall EXCEPT !.requests = attempt, !.last = response,
                                  !.state = "returned", !.in = in,
                                  !.segments = parsed.segments,
                                  !.error = parsed.error]
            ELSE IF ~PollLoopEnds(attempt)
            THEN [fcall EXCEPT !.requests = attempt, !.last = response]
            ELSE [fcall EXCEPT !.requests = attempt, !.last = response,
                               !.state = "thrown", !.error = PollJobTimeoutError]
    /\ UNCHANGED <<dbVars, adm, jobs, dupCount, wk, sweeper, now, hooks, ded, addc,
                   deductLog, trialLog, balance0, webhookSecret, anonc, payments, stripe>>

\* One youtube task is being executed: its job is active in any of its
\* attempts and processTask is about to call the provider.
InitPoll ==
    /\ \E req \in {r \in Requests : r.source_type = YOUTUBE}, n \in 0..(JOB_ATTEMPTS - 1) :
         /\ tasks = [t \in TaskIds |->
                       IF t = PollTask
                       THEN [PendingRow(req) EXCEPT !.status = PROCESSING]
                       ELSE NoTask]
         /\ jobs = [t \in TaskIds |->
                      IF t = PollTask
                      THEN [state |-> "active", attemptsMade |-> n,
                            owner |-> PollWorker,
                            priority |-> QueuePriority(tasks[t].priority)]
                      ELSE NoJob]
    /\ transcripts = [t \in TaskIds |-> 0]
    /\ trialUsages = [k \in UsageKeys |-> 0]
    /\ anonTokens = [a \in AnonIds |-> NoAnonToken]
    /\ balances = [u \in UserIds |-> [row |-> TRUE, minutes_balance |-> InitBalanceOfUser]]
    /\ adm = [a \in Adm |-> IF a = PollTask
                            THEN [IdleAdm EXCEPT !.pc = "done", !.result = "task_id"]
                            ELSE IdleAdm]
    /\ dupCount = 0
    /\ wk = [w \in Workers |->
               IF w = PollWorker
               THEN [IdleWorker EXCEPT !.pc = "provider", !.task = PollTask]
               ELSE IdleWorker]
    /\ sweeper = IdleSweeper
    /\ now = 0
    /\ hooks = [h \in Hooks |-> IdleHook]
    /\ ded = [d \in DeductCalls |-> IdleDeduct]
    /\ addc = [d \in AddCalls |-> IdleAdd]
    /\ deductLog = [t \in TaskIds |-> 0]
    /\ trialLog = [t \in TaskIds |-> 0]
    /\ balance0 = balances
    /\ fcall = NoCall
    /\ webhookSecret = NoSecret
    /\ anonc = [c \in AnonCalls |-> IdleAnonCall]
    /\ payments = [e \in PaymentIds |-> NoPayment]
    /\ stripe = [s \in StripeHooks |-> IdleStripeHook]

PollNext ==
    \/ PollJobStart(PollWorker)
    \/ \E response \in PollResponses, in \in ParseInputs :
          PollJobRequest(response, in)
    \/ \E duration \in Durations :
          /\ fcall.op = "pollJob" /\ fcall.state = "returned"
          /\ fcall.error = NULL
          /\ ProcessTaskTranscribe(PollWorker, duration, 202)
    \/ /\ fcall.op = "pollJob" /\ fcall.error /= NULL
       /\ ProcessTaskCatch(PollWorker, fcall.error)
    \/ ProcessTaskSucceed(PollWorker)
    \/ ProcessTaskRecordTrial(PollWorker)
    \/ ProcessTaskFlagAnon(PollWorker)

SpecPoll == InitPoll /\ [][PollNext]_vars

LlmMergeFailed ==
    /\ fcall.op = "pollJob"
    /\ fcall.state = "returned"
    /\ fcall.in.content = "chunks"
    /\ fcall.isGenerated /\ fcall.in.available
    /\ fcall.in.llm \in LlmFailures

\* C28: when the LLM merge call fails for a generated transcript (network
\* failure, empty response or invalid shape), the result holds the rule-based
\* merge of the raw chunks, nothing is thrown and the task does not fail.
C28_LlmFailureFallsBackToRuleMerge ==
    LlmMergeFailed =>
        /\ fcall.segments = "rule"
        /\ fcall.error = NULL
        /\ tasks[PollTask].status /= FAILED

\* ------------------------------------------------------ rule-based merge
\* Texts are sequences of UTF-16 code units; times are held in milliseconds
\* (the code divides the offsets by 1000 and compares seconds).

\* const { maxGapSeconds = 1.5, maxLengthChars = 200 } = options
MaxGapMillis == 1500
MaxLengthChars == 200

\* [一-龥]
IsHan(c) == c \in 19968..40869

\* the punctuation of the character class of cleanChineseSpaces
ChinesePunctuation ==
    {65292, 12290, 65281, 65311, 12289, 65306, 65307, 34, 39,
     65288, 65289, 12304, 12305}

IsChineseSet(c) == IsHan(c) \/ c \in ChinesePunctuation

\* /[a-zA-Z0-9]/
IsAlphanumeric(c) == c \in (48..57) \cup (65..90) \cup (97..122)

\* \s
Whitespace ==
    {9, 10, 11, 12, 13, 32, 160, 5760, 8232, 8233, 8239, 8287, 12288, 65279}
        \cup (8192..8202)

\* sentenceEndPattern = /[。！？.!?]$/
EndsWithPunctuation(text) ==
    Len(text) > 0 /\ text[Len(text)] \in {12290, 65281, 65311, 46, 33, 63}

\* smartJoinText(left, right): a space only between two alphanumerics
SmartJoinText(left, right) ==
    IF left = <<>> THEN right
    ELSE IF right = <<>> THEN left
    ELSE IF IsAlphanumeric(left[Len(left)]) /\ IsAlphanumeric(right[1])
    THEN left \o <<32>> \o right
    ELSE left \o right

\* index of the first code unit at or after i that is not whitespace
\* (Len(text) + 1 when there is none): where \s+ stops
SkipSpaces(text, i) ==
    LET RECURSIVE Skip(_)
        Skip(k) ==
            IF k <= Len(text) /\ text[k] \in Whitespace THEN Skip(k + 1) ELSE k
    IN Skip(i)

\* /([C])\s+([C])/ matches at index k
MatchesAt(text, k) ==
    /\ IsChineseSet(text[k])
    /\ k + 1 <= Len(text)
    /\ text[k + 1] \in Whitespace
    /\ LET j == SkipSpaces(text, k + 1)
       IN j <= Len(text) /\ IsChineseSet(text[j])

\* result.replace(/([C])\s+([C])/g, '$1$2'): one pass, matches taken from left
\* to right without overlap (the search resumes after the second character)
ReplaceChineseSpaces(text) ==
    LET n == Len(text)
        RECURSIVE Scan(_)
        Scan(i) ==
            LET M == {k \in i..n : MatchesAt(text, k)}
            IN IF M = {} THEN SubSeq(text, i, n)
               ELSE LET m == CHOOSE k \in M : \A x \in M : k <= x
                        j == SkipSpaces(text, m + 1)
                    IN SubSeq(text, i, m) \o <<text[j]>> \o Scan(j + 1)
    IN Scan(1)

\* a cleanup that stops after the first replace
CleanChineseSpacesOnePass(text) ==
    ReplaceChineseSpaces(text)

\* cleanChineseSpaces(text): while (result !== prev) repeat the replace
CleanChineseSpaces(text) ==
    LET RECURSIVE Fix(_)
        Fix(t) == LET r == ReplaceChineseSpaces(t)
                  IN IF r = t THEN t ELSE Fix(r)
    IN Fix(text)

\* mergeSegments: the condition under which seg starts a new segment
ShouldBreak(current, seg) ==
    \/ current.speaker /= seg.speaker
    \/ EndsWithPunctuation(current.text)
    \/ Len(current.text) + Len(seg.text) > MaxLengthChars
    \/ seg.start - current.end > MaxGapMillis

\* mergeSegments(segments): segments pushed inside the loop keep their text;
\* the segment left after the loop is cleaned and pushed
MergeSegments(segments) ==
    LET RECURSIVE Loop(_, _, _)
        Loop(i, current, merged) ==
            IF i > Len(segments)
            THEN Append(merged,
                        [current EXCEPT !.text = CleanChineseSpaces(current.text)])
            ELSE LET seg == segments[i]
                 IN IF ShouldBreak(current, seg)
                    THEN Loop(i + 1, seg, Append(merged, current))
                    ELSE Loop(i + 1,
                              [current EXCEPT
                                  !.end = seg.end,
                                  !.text = SmartJoinText(current.text, seg.text)],
                              merged)
    IN IF Len(segments) = 0 THEN <<>> ELSE Loop(2, segments[1], <<>>)

\* ---- inputs of the merge specification
MaxChunks == 3
LongTextLen == 150
SpacedHanCount == 26

\* a chunk of Latin letters, and a chunk of Han characters with a space between
\* each two, as the provider returns them
LongLatin == [i \in 1..LongTextLen |-> 97]
SpacedHan == [i \in 1..(2 * SpacedHanCount - 1) |-> IF i % 2 = 1 THEN 20013 ELSE 32]

ChunkTexts ==
    {<<97>>, <<20013>>, <<20013, 32, 20013>>, <<20013, 12290>>, LongLatin, SpacedHan}

\* time between the end of a chunk and the start of the next, and a chunk's length
ChunkGaps == {0 - 500, 1500, 2000}
ChunkMillis == 1000

\* rawSegments of parseResponse: start, end from the offsets, speaker null
ChunkSeq(texts, gaps) ==
    LET RECURSIVE Build(_, _)
        Build(i, prevEnd) ==
            IF i > Len(texts) THEN <<>>
            ELSE LET start == IF i = 1 THEN 0 ELSE prevEnd + gaps[i]
                 IN <<[start |-> start, end |-> start + ChunkMillis,
                       text |-> texts[i], speaker |-> NULL]>>
                    \o Build(i + 1, start + ChunkMillis)
    IN Build(1, 0)

Seg(text, start, end) ==
    [start |-> start, end |-> end, text |-> text, speaker |-> NULL]

\* the example of docs/segment-merge-rules.md
DocExampleInput ==
    << Seg(<<72, 101, 108, 108, 111>>, 0, 1500),
       Seg(<<22823, 23478, 22909, 44>>, 300, 1800),
       Seg(<<25105, 26159, 32, 32769>>, 560, 2060),
       Seg(<<39640, 32, 21681>>, 760, 2260),
       Seg(<<20204, 32, 20170, 22825>>, 980, 2480),
       Seg(<<26469, 32, 35762>>, 1280, 2780),
       Seg(<<19968, 20010, 35805, 39064, 12290>>, 2800, 4000),
       Seg(<<37027, 23601, 26159>>, 4500, 5500) >>

DocExampleOutput ==
    << Seg(<<72, 101, 108, 108, 111, 22823, 23478, 22909, 44, 25105, 26159,
             32769, 39640, 21681, 20204, 20170, 22825, 26469, 35762, 19968,
             20010, 35805, 39064, 12290>>, 0, 4000),
       Seg(<<37027, 23601, 26159>>, 4500, 5500) >>

MergeInputs ==
    {DocExampleInput} \cup
    UNION {{ChunkSeq(texts, gaps) : texts \in [1..n -> ChunkTexts],
                                    gaps \in [1..n -> ChunkGaps]} : n \in 0..MaxChunks}

\* parseResponse: segments = this.mergeSegments(rawSegments)
MergeSegmentsCall(segments) ==
    /\ fcall = NoCall
    /\ fcall' = [op |-> "mergeSegments", segments |-> segments,
                 merged |-> MergeSegments(segments), again |-> <<>>, twice |-> FALSE]
    /\ UNCHANGED <<dbVars, adm, jobs, dupCount, wk, sweeper, now, hooks, ded, addc,
                   deductLog, trialLog, balance0, webhookSecret, anonc, payments, stripe>>

\* mergeSegments applied to its own output
MergeSegmentsAgain ==
    /\ fcall.op = "mergeSegments"
    /\ ~fcall.twice
    /\ fcall' = [fcall EXCEPT !.again = MergeSegments(fcall.merged), !.twice = TRUE]
    /\ UNCHANGED <<dbVars, adm, jobs, dupCount, wk, sweeper, now, hooks, ded, addc,
                   deductLog, trialLog, balance0, webhookSecret, anonc, payments, stripe>>

MergeNext ==
    \/ \E segments \in MergeInputs : MergeSegmentsCall(segments)
    \/ MergeSegmentsAgain

SpecMerge == Init /\ [][MergeNext]_vars

\* ---------------------------------------------------------------- C29
\* the text has whitespace between two characters of the Chinese set
HasChineseGap(text) ==
    \E i \in 1..Len(text) :
        /\ IsChineseSet(text[i])
        /\ i + 1 <= Len(text)
        /\ text[i + 1] \in Whitespace
        /\ \E j \in (i + 2)..Len(text) :
              /\ IsChineseSet(text[j])
              /\ \A k \in (i + 1)..(j - 1) : text[k] \in Whitespace

\* C29: after the rule-based merge no output segment, last or not, has
\* whitespace between two characters of the Chinese set, and the documented
\* 8-chunk example merges to exactly the two documented segments.
C29_EverySegmentIsCleaned ==
    fcall.op = "mergeSegments" =>
        /\ \A i \in 1..Len(fcall.merged) : ~HasChineseGap(fcall.merged[i].text)
        /\ fcall.segments = DocExampleInput => fcall.merged = DocExampleOutput

\* ---------------------------------------------------------------- C30
\* C30: the rule-based merge is idempotent: merging the merged segments again
\* gives the same segments (number, start, end, text and speaker).
C30_MergeIsIdempotent ==
    (fcall.op = "mergeSegments" /\ fcall.twice) => fcall.again = fcall.merged

\* ------------------------------------------------ cleanup specification
MaxTextLen == 5

\* code units a text is drawn from: a Han character, a Chinese full stop, a
\* Latin letter, a space and an ideographic space
CleanAlphabet == {20013, 12290, 97, 32, 12288}

CleanInputs == UNION {[1..n -> CleanAlphabet] : n \in 0..MaxTextLen}

\* cleanChineseSpaces(text), and cleanChineseSpaces of its result
CleanChineseSpacesCall(text) ==
    /\ fcall = NoCall
    /\ LET result == CleanChineseSpaces(text)
       IN fcall' = [op |-> "cleanChineseSpaces", text |-> text,
                    result |-> result, again |-> CleanChineseSpaces(result)]
    /\ UNCHANGED <<dbVars, adm, jobs, dupCount, wk, sweeper, now, hooks, ded, addc,
                   deductLog, trialLog, balance0, webhookSecret, anonc, payments, stripe>>

CleanNext == \E text \in CleanInputs : CleanChineseSpacesCall(text)

SpecClean == Init /\ [][CleanNext]_vars

\* ---------------------------------------------------------------- C31
\* the code units of a text that are not whitespace, in order
NonSpace(text) == SelectSeq(text, LAMBDA c : c \notin Whitespace)

\* number of replace passes the loop of cleanChineseSpaces makes on a text
CleanPasses(text) ==
    LET RECURSIVE Count(_)
        Count(t) == LET r == ReplaceChineseSpaces(t)
                    IN IF r = t THEN 1 ELSE 1 + Count(r)
    IN Count(text)

\* C31: cleanChineseSpaces is idempotent, keeps every non-space character of
\* its input in the original order, and its loop ends after at most one pass
\* per character of the input plus one.
C31_CleanupIsIdempotent ==
    fcall.op = "cleanChineseSpaces" =>
        /\ fcall.again = fcall.result
        /\ NonSpace(fcall.result) = NonSpace(fcall.text)
        /\ CleanPasses(fcall.text) <= Len(fcall.text) + 1

\* C31 witness: a text whose cleanup needs a second pass (Han, space, Han,
\* space, Han) has been cleaned to the three Han characters.
C31_Witness ==
    /\ fcall.op = "cleanChineseSpaces"
    /\ fcall.text = <<20013, 32, 20013, 32, 20013>>
    /\ fcall.result = <<20013, 20013, 20013>>
    /\ ReplaceChineseSpaces(fcall.text) /= fcall.result

\* ------------------------------------------------ segments specification
\* String.prototype.trim
Trim(text) ==
    LET first == SkipSpaces(text, 1)
        RECURSIVE Back(_)
        Back(k) == IF k >= 1 /\ text[k] \in Whitespace THEN Back(k - 1) ELSE k
    IN SubSeq(text, first, Back(Len(text)))

\* parseResponse: rawSegments = data.content.map(chunk => ...), the offsets
\* kept in milliseconds
RawSegments(chunks) ==
    [i \in 1..Len(chunks) |->
        Seg(Trim(chunks[i].text), chunks[i].offset,
            chunks[i].offset + chunks[i].duration)]

\* parseResponse on a chunk array when the LLM merge is not used
ParseChunks(chunks) == MergeSegments(RawSegments(chunks))

\* parseResponse on a plain-text content
ParseText(content) == <<Seg(content, 0, 0)>>

\* a JSON value of an LLM answer: a number, a string, or absent
Absent == [type |-> "undefined", num |-> 0, str |-> <<>>]
Num(n) == [type |-> "number", num |-> n, str |-> <<>>]
Str(t) == [type |-> "string", num |-> 0, str |-> t]

\* OpenAIService.parseResult: result.segments.map(...), a field of another
\* type is replaced by 0 or ''
ParseResult(segments) ==
    [i \in 1..Len(segments) |->
        Seg(IF segments[i].text.type = "string" THEN segments[i].text.str ELSE <<>>,
            IF segments[i].start.type = "number" THEN segments[i].start.num ELSE 0,
            IF segments[i].end.type = "number" THEN segments[i].end.num ELSE 0)]

\* ---- inputs
MaxLlmSegments == 2

\* chunk texts: blank, a word, a word with a leading space, a sentence
SupadataTexts == {<<32>>, <<97>>, <<32, 97>>, <<97, 46>>}

SupadataChunks ==
    UNION {{[i \in 1..n |->
               [text |-> texts[i],
                offset |-> (i - 1) * 4 * ChunkMillis + gaps[i],
                duration |-> ChunkMillis]] :
            texts \in [1..n -> SupadataTexts],
            gaps \in [1..n -> {ChunkMillis, 3 * ChunkMillis}]} : n \in 1..MaxChunks}

LlmSegments ==
    [start : {Absent, Num(0), Num(2 * ChunkMillis)},
     end : {Absent, Num(ChunkMillis)},
     text : {Absent, Str(<<97>>)}]

LlmAnswers == UNION {[1..n -> LlmSegments] : n \in 1..MaxLlmSegments}

ParseChunksCall(chunks) ==
    /\ fcall = NoCall
    /\ fcall' = [op |-> "parseResponse", via |-> "chunks",
                 segments |-> ParseChunks(chunks)]
    /\ UNCHANGED <<dbVars, adm, jobs, dupCount, wk, sweeper, now, hooks, ded, addc,
                   deductLog, trialLog, balance0, webhookSecret, anonc, payments, stripe>>

ParseTextCall(content) ==
    /\ fcall = NoCall
    /\ fcall' = [op |-> "parseResponse", via |-> "text",
                 segments |-> ParseText(content)]
    /\ UNCHANGED <<dbVars, adm, jobs, dupCount, wk, sweeper, now, hooks, ded, addc,
                   deductLog, trialLog, balance0, webhookSecret, anonc, payments, stripe>>

ParseResultCall(answer) ==
    /\ fcall = NoCall
    /\ fcall' = [op |-> "parseResponse", via |-> "llm",
                 segments |-> ParseResult(answer)]
    /\ UNCHANGED <<dbVars, adm, jobs, dupCount, wk, sweeper, now, hooks, ded, addc,
                   deductLog, trialLog, balance0, webhookSecret, anonc, payments, stripe>>

SegmentsNext ==
    \/ \E chunks \in SupadataChunks : ParseChunksCall(chunks)
    \/ \E content \in SupadataTexts : ParseTextCall(content)
    \/ \E answer \in LlmAnswers : ParseResultCall(answer)

SpecSegments == Init /\ [][SegmentsNext]_vars

\* ---------------------------------------------------------------- C32
\* C32: every segment an adapter returns has 0 <= start <= end and a text
\* that is not empty after trimming, whether it comes from chunks (blank ones
\* included), from a plain-text answer or from an LLM answer.
C32_SegmentsAreWellFormed ==
    fcall.op = "parseResponse" =>
        \A i \in 1..Len(fcall.segments) :
            /\ 0 <= fcall.segments[i].start
            /\ fcall.segments[i].start <= fcall.segments[i].end
            /\ Trim(fcall.segments[i].text) /= <<>>

\* ------------------------------------------------ recovery specification
EnqueueError == "ENQUEUE_ERROR"

\* createTask: tasksQueue.add rejects (the queue is unreachable); the exception
\* leaves createTask after the row was inserted, and no job exists
CreateTaskEnqueueError(a) ==
    /\ adm[a].pc = "enqueue"
    /\ adm' = [adm EXCEPT ![a] =
                 [IdleAdm EXCEPT !.pc = "done", !.result = EnqueueError,
                                 !.racedWith = adm[a].racedWith,
                                 !.queryFailed = adm[a].queryFailed]]
    /\ UNCHANGED <<dbVars, jobs, dupCount, wk, sweeper, now, hooks, ded, addc,
                   deductLog, trialLog, balance0, fcall, webhookSecret, anonc, payments, stripe>>

\* Starts when createTask calls of distinct owners have inserted their rows and
\* are about to enqueue.  The queue consumers, the clock and cleanupStuckTasks
\* (run by onModuleInit at every start and by the cron) run from there.
InitRecover ==
    /\ \E reqs \in [TaskIds -> Requests] :
         /\ \A t1, t2 \in TaskIds : t1 /= t2 => reqs[t1].user /= reqs[t2].user
         /\ tasks = [t \in TaskIds |-> PendingRow(reqs[t])]
         /\ adm = [a \in Adm |->
                     [IdleAdm EXCEPT !.pc = "enqueue", !.user = reqs[a].user,
                                     !.is_trial = reqs[a].is_trial,
                                     !.source_type = reqs[a].source_type]]
    /\ transcripts = [t \in TaskIds |-> 0]
    /\ trialUsages = [k \in UsageKeys |-> 0]
    /\ anonTokens = [a \in AnonIds |-> NoAnonToken]
    /\ balances = [u \in UserIds |-> [row |-> TRUE, minutes_balance |-> InitBalanceOfUser]]
    /\ jobs = [t \in TaskIds |-> NoJob]
    /\ dupCount = 0
    /\ wk = [w \in Workers |-> IdleWorker]
    /\ sweeper = IdleSweeper
    /\ now = 0
    /\ hooks = [h \in Hooks |-> IdleHook]
    /\ ded = [d \in DeductCalls |-> IdleDeduct]
    /\ addc = [d \in AddCalls |-> IdleAdd]
    /\ deductLog = [t \in TaskIds |-> 0]
    /\ trialLog = [t \in TaskIds |-> 0]
    /\ balance0 = balances
    /\ fcall = NoCall
    /\ webhookSecret = NoSecret
    /\ anonc = [c \in AnonCalls |-> IdleAnonCall]
    /\ payments = [e \in PaymentIds |-> NoPayment]
    /\ stripe = [s \in StripeHooks |-> IdleStripeHook]

RecoverNext ==
    \/ \E a \in Adm : CreateTaskEnqueue(a)
    \/ \E a \in Adm : CreateTaskEnqueueError(a)
    \/ ExecutorNext
    \/ CleanupSelect
    \/ CleanupUpdate
    \/ Tick

\* every step that can be taken is eventually taken
SpecRecover == InitRecover /\ [][RecoverNext]_vars /\ WF_vars(RecoverNext)

\* ---------------------------------------------------------------- C33
\* C33: a pending task whose job was lost is re-enqueued by a recovery step,
\* so every pending task eventually leaves pending.
C33_PendingEventuallyLeaves ==
    \A t \in TaskIds : (tasks[t].status = PENDING) ~> (tasks[t].status /= PENDING)

\* ------------------------------------------------ stuck-task specification
\* the bounded clock can still pass the threshold of a task that starts now
ClockCovers == now + TASK_TIMEOUT_MINUTES < MaxTicks * CRON_MINUTES

\* One task has been admitted and its job waits.  The consumers may stop at
\* any step for good (a crash, a provider that hangs): nothing obliges them to
\* go on.  The clock advances and cleanupStuckTasks keeps being run.
InitStuck ==
    /\ \E req \in Requests :
         tasks = [t \in TaskIds |-> IF t = PollTask THEN PendingRow(req) ELSE NoTask]
    /\ transcripts = [t \in TaskIds |-> 0]
    /\ trialUsages = [k \in UsageKeys |-> 0]
    /\ anonTokens = [a \in AnonIds |-> NoAnonToken]
    /\ balances = [u \in UserIds |-> [row |-> TRUE, minutes_balance |-> InitBalanceOfUser]]
    /\ adm = [a \in Adm |-> IF a = PollTask
                            THEN [IdleAdm EXCEPT !.pc = "done", !.result = "task_id"]
                            ELSE IdleAdm]
    /\ jobs = [t \in TaskIds |->
                 IF t = PollTask
                 THEN [state |-> "waiting", attemptsMade |-> 0, owner |-> 0,
                       priority |-> QueuePriority(tasks[t].priority)]
                 ELSE NoJob]
    /\ dupCount = 0
    /\ wk = [w \in Workers |-> IdleWorker]
    /\ sweeper = IdleSweeper
    /\ now = 0
    /\ hooks = [h \in Hooks |-> IdleHook]
    /\ ded = [d \in DeductCalls |-> IdleDeduct]
    /\ addc = [d \in AddCalls |-> IdleAdd]
    /\ deductLog = [t \in TaskIds |-> 0]
    /\ trialLog = [t \in TaskIds |-> 0]
    /\ balance0 = balances
    /\ fcall = NoCall
    /\ webhookSecret = NoSecret
    /\ anonc = [c \in AnonCalls |-> IdleAnonCall]
    /\ payments = [e \in PaymentIds |-> NoPayment]
    /\ stripe = [s \in StripeHooks |-> IdleStripeHook]

StuckNext ==
    \/ \E w \in Workers, t \in TaskIds : ClockCovers /\ Deliver(w, t)
    \/ \E w \in Workers, t \in TaskIds : ClockCovers /\ DeliverDuplicate(w, t)
    \/ \E w \in Workers, duration \in Durations, status \in SupadataStatuses :
          ProcessTaskTranscribe(w, duration, status)
    \/ \E w \in Workers, error \in Errors : ProcessTaskCatch(w, error)
    \/ \E w \in Workers : ProcessTaskSucceed(w)
    \/ \E w \in Workers : ProcessTaskRecordTrial(w)
    \/ \E w \in Workers : ProcessTaskFlagAnon(w)
    \/ CleanupSelect
    \/ CleanupUpdate
    \/ Tick

\* time advances and the sweeper keeps running; the executor has no fairness
SpecStuck ==
    /\ InitStuck
    /\ [][StuckNext]_vars
    /\ WF_vars(Tick)
    /\ WF_vars(CleanupSelect)
    /\ WF_vars(CleanupUpdate)

C35_TrialRecordedBeforeSucceeded ==
    \A t \in TaskIds :
        (tasks[t].status = SUCCEEDED /\ tasks[t].is_trial)
            => HasUsedTrial(tasks[t].user_id, tasks[t].anon_id)

IpAddresses == {"ip1", "ip2"}
UserAgents == {"ua1"}

\* the two recordTrialUsage bodies of the repository: the one that upserts the
\* anon_tokens row and the one (like the SQL function) that updates it
RecordTrialVariants == {"upsert", "update"}

UniqueViolation == "UNIQUE_VIOLATION"

\* an insert that replaces an existing row
InsertAnonTokenOverwriting(tbl, anonId, ipHash, uaHash) ==
    [tbl EXCEPT ![anonId] = [row |-> TRUE, used_trial |-> FALSE,
                            ip_hash |-> ipHash, ua_hash |-> uaHash]]

\* insert into anon_tokens {anon_id, ip_hash, ua_hash, used_trial: false};
\* anon_id is UNIQUE, so the insert is rejected while a row exists
InsertAnonToken(tbl, anonId, ipHash, uaHash) ==
    IF tbl[anonId].row THEN tbl
    ELSE [tbl EXCEPT ![anonId] = [row |-> TRUE, used_trial |-> FALSE,
                                 ip_hash |-> ipHash, ua_hash |-> uaHash]]

\* update anon_tokens set used_trial = true where anon_id = anonId
UpdateAnonToken(tbl, anonId) ==
    IF tbl[anonId].row THEN [tbl EXCEPT ![anonId].used_trial = TRUE] ELSE tbl

\* update trial_usages set user_id = userId where anon_id = anonId and user_id is null
BindUsages(tbl, userId, anonId) ==
    [k \in DOMAIN tbl |->
        IF k = <<NULL, anonId>> THEN 0
        ELSE IF k = <<userId, anonId>> THEN tbl[k] + tbl[<<NULL, anonId>>]
        ELSE tbl[k]]

\* getOrCreateAnonToken: hash the inputs, select the row by anon_id
GetOrCreateAnonTokenRead(c, anonId, ipAddress, userAgent) ==
    /\ anonc[c].pc = "idle"
    /\ anonc' = [anonc EXCEPT ![c] =
                   [IdleAnonCall EXCEPT
                      !.pc = IF anonTokens[anonId].row THEN "done" ELSE "insert",
                      !.op = "getOrCreateAnonToken",
                      !.anonId = anonId,
                      !.ipHash = Hash(ipAddress),
                      !.uaHash = Hash(userAgent),
                      !.result = IF anonTokens[anonId].row THEN "existing" ELSE NULL]]
    /\ UNCHANGED <<dbVars, adm, jobs, dupCount, wk, sweeper, now, hooks, ded, addc,
                   deductLog, trialLog, balance0, fcall, webhookSecret, payments, stripe>>

\* getOrCreateAnonToken: no row was found, insert one; an insert error is thrown
GetOrCreateAnonTokenInsert(c) ==
    /\ anonc[c].pc = "insert"
    /\ anonTokens' = InsertAnonToken(anonTokens, anonc[c].anonId,
                                     anonc[c].ipHash, anonc[c].uaHash)
    /\ anonc' = [anonc EXCEPT ![c].pc = "done",
                              ![c].result = IF anonTokens[anonc[c].anonId].row
                                            THEN UniqueViolation ELSE "created"]
    /\ UNCHANGED <<tasks, transcripts, trialUsages, balances, adm, jobs, dupCount,
                   wk, sweeper, now, hooks, ded, addc, deductLog, trialLog,
                   balance0, fcall, webhookSecret, payments, stripe>>

\* recordTrialUsage: insert into trial_usages (an insert error is at most logged)
RecordTrialUsageInsert(c, userId, anonId, variant) ==
    /\ anonc[c].pc = "idle"
    /\ trialUsages' = InsertTrialUsage(trialUsages, userId, anonId)
    /\ anonc' = [anonc EXCEPT ![c] =
                   [IdleAnonCall EXCEPT
                      !.pc = IF anonId /= NULL THEN "flag" ELSE "done",
                      !.op = "recordTrialUsage",
                      !.userId = userId,
                      !.anonId = anonId,
                      !.variant = variant]]
    /\ UNCHANGED <<tasks, transcripts, anonTokens, balances, adm, jobs, dupCount,
                   wk, sweeper, now, hooks, ded, addc, deductLog, trialLog,
                   balance0, fcall, webhookSecret, payments, stripe>>

\* recordTrialUsage: mark the anon token as used, by upsert or by update
RecordTrialUsageFlag(c) ==
    /\ anonc[c].pc = "flag"
    /\ anonTokens' = IF anonc[c].variant = "upsert"
                     THEN UpsertAnonToken(anonTokens, anonc[c].anonId)
                     ELSE UpdateAnonToken(anonTokens, anonc[c].anonId)
    /\ anonc' = [anonc EXCEPT ![c].pc = "done"]
    /\ UNCHANGED <<tasks, transcripts, trialUsages, balances, adm, jobs, dupCount,
                   wk, sweeper, now, hooks, ded, addc, deductLog, trialLog,
                   balance0, fcall, webhookSecret, payments, stripe>>

\* bindTrialToUser: one update of trial_usages
BindTrialToUser(c, userId, anonId) ==
    /\ anonc[c].pc = "idle"
    /\ trialUsages' = BindUsages(trialUsages, userId, anonId)
    /\ anonc' = [anonc EXCEPT ![c] =
                   [IdleAnonCall EXCEPT !.pc = "done", !.op = "bindTrialToUser",
                                        !.userId = userId, !.anonId = anonId]]
    /\ UNCHANGED <<tasks, transcripts, anonTokens, balances, adm, jobs, dupCount,
                   wk, sweeper, now, hooks, ded, addc, deductLog, trialLog,
                   balance0, fcall, webhookSecret, payments, stripe>>

AnonUsageKeys == (UserIds \cup {NULL}) \X (AnonIds \cup {NULL})

\* an empty database and idle calls of the three functions
InitAnon ==
    /\ tasks = [t \in TaskIds |-> NoTask]
    /\ transcripts = [t \in TaskIds |-> 0]
    /\ trialUsages = [k \in AnonUsageKeys |-> 0]
    /\ anonTokens = [a \in AnonIds |-> NoAnonToken]
    /\ balances = [u \in UserIds |-> NoBalance]
    /\ InitIdleCalls

AnonNext ==
    \/ \E c \in AnonCalls, a \in AnonIds, ip \in IpAddresses, ua \in UserAgents :
           GetOrCreateAnonTokenRead(c, a, ip, ua)
    \/ \E c \in AnonCalls : GetOrCreateAnonTokenInsert(c)
    \/ \E c \in AnonCalls, u \in UserIds \cup {NULL}, a \in AnonIds \cup {NULL},
          v \in RecordTrialVariants :
           RecordTrialUsageInsert(c, u, a, v)
    \/ \E c \in AnonCalls : RecordTrialUsageFlag(c)
    \/ \E c \in AnonCalls, u \in UserIds, a \in AnonIds : BindTrialToUser(c, u, a)

SpecAnon == InitAnon /\ [][AnonNext]_vars

\* ---------------------------------------------------------------- C37
\* C37: used_trial of an anon token is monotonic: once true for an anon id it
\* is true after every step of getOrCreateAnonToken, recordTrialUsage and
\* bindTrialToUser, in any interleaving, and a second flip to true changes
\* nothing about it.
C37_UsedTrialIsMonotonic ==
    [][\A a \in AnonIds :
          (anonTokens[a].row /\ anonTokens[a].used_trial) =>
              (anonTokens'[a].row /\ anonTokens'[a].used_trial)]_vars

\* C37 witness: two recordTrialUsage calls have flagged the same anon id and a
\* getOrCreateAnonToken call that had found no row made its insert afterwards.
C37_Witness ==
    \E c1, c2, c3 \in AnonCalls, a \in AnonIds :
        /\ c1 /= c2
        /\ \A c \in {c1, c2} :
               /\ anonc[c].op = "recordTrialUsage"
               /\ anonc[c].anonId = a
               /\ anonc[c].pc = "done"
        /\ anonc[c3].op = "getOrCreateAnonToken"
        /\ anonc[c3].anonId = a
        /\ anonc[c3].result = UniqueViolation
        /\ anonTokens[a].used_trial

\* ---------------------------------------------------------------- C38
\* C38: on an anon token row that already exists, recordTrialUsage changes
\* only used_trial (to true): ip_hash and ua_hash stay as they were stored.
C38_RecordTrialKeepsHashes ==
    [][\A c \in AnonCalls :
          (anonc[c].pc = "flag" /\ anonc'[c].pc = "done"
              /\ anonTokens[anonc[c].anonId].row) =>
              LET before == anonTokens[anonc[c].anonId]
                  after == anonTokens'[anonc[c].anonId]
              IN /\ after.row
                 /\ after.used_trial
                 /\ after.ip_hash = before.ip_hash
                 /\ after.ua_hash = before.ua_hash]_vars

\* ---------------------------------------------------------------- C40
\* sum of the minutes of the addBalance calls that returned true
RECURSIVE SumAdded(_)
SumAdded(D) ==
    IF D = {} THEN 0
    ELSE LET d == CHOOSE x \in D : TRUE
         IN (IF addc[d].result = "true" THEN addc[d].minutes ELSE 0)
            + SumAdded(D \ {d})

\* C40: no balance update is lost: when all addBalance and deductBalance calls
\* on one user have returned, minutes_balance is the initial balance plus all
\* added minutes minus the minutes of every deduction that returned true.
C40_NoBalanceUpdateIsLost ==
    (/\ \A d \in DeductCalls : ded[d].pc \in {"idle", "done"}
     /\ \A d \in AddCalls : addc[d].pc \in {"idle", "done"})
        => /\ (SumAdded(AddCalls) > 0 => balances[BillingUser].row)
           /\ balances[BillingUser].minutes_balance
                = balance0[BillingUser].minutes_balance
                    + SumAdded(AddCalls) - SumDeducted(DeductCalls)

\* ------------------------------------------------- Stripe webhook (payments)
\* Math.floor(((invoice.amount_paid || 0) / 100) * 10)
CalculateMinutesFromInvoice(amountPaid) == (amountPaid * 10) \div 100

\* getUserIdByCustomerId: user_id of a payments row of the customer, or null
UserIdByCustomerId(customerId) ==
    LET rows == {p \in PaymentIds :
                    payments[p].row /\ payments[p].stripe_customer_id = customerId}
    IN IF rows = {} THEN NULL ELSE payments[CHOOSE p \in rows : TRUE].user_id

\* the idempotency check: a payments row with the event's id exists
EventProcessed(eventId) == payments[eventId].row

\* recordPayment: insert into payments; id is the primary key, so the insert
\* is rejected while a row with the id exists (the result is not inspected)
RecordPayment(tbl, event, userId, eventType, minutesDelta) ==
    IF tbl[event.id].row THEN tbl
    ELSE [tbl EXCEPT ![event.id] =
            [row |-> TRUE, user_id |-> userId,
             stripe_customer_id |-> event.customer,
             event_type |-> eventType, minutes_delta |-> minutesDelta]]

\* POST /webhooks/stripe and handleWebhook up to the switch: raw body present,
\* constructEvent verifies the signature, the payments row of the event id is read
StripeHandleWebhookRead(s, event, rawBody, signatureValid) ==
    /\ stripe[s].pc = "idle"
    /\ stripe' = [stripe EXCEPT ![s] =
          [IdleStripeHook EXCEPT
             !.event = event,
             !.pc = IF rawBody = NoRawBody \/ ~signatureValid
                       \/ EventProcessed(event.id)
                       \/ event.type \notin {"invoice.paid",
                                             "customer.subscription.updated"}
                    THEN "done" ELSE "customer",
             !.result = IF rawBody = NoRawBody THEN "Raw body not available"
                        ELSE IF ~signatureValid THEN "Invalid signature"
                        ELSE IF EventProcessed(event.id) THEN "skipped"
                        ELSE IF event.type \notin {"invoice.paid",
                                                   "customer.subscription.updated"}
                        THEN "unhandled"
                        ELSE NULL]]
    /\ UNCHANGED <<dbVars, adm, jobs, dupCount, wk, sweeper, now, hooks, ded, addc,
                   deductLog, trialLog, balance0, fcall, webhookSecret, anonc,
                   payments>>

\* handleInvoicePaid / handleSubscriptionUpdate: getUserIdByCustomerId
StripeLookupUser(s) ==
    /\ stripe[s].pc = "customer"
    /\ LET userId == UserIdByCustomerId(stripe[s].event.customer)
       IN stripe' = [stripe EXCEPT
             ![s].userId = userId,
             ![s].minutesDelta =
                 IF stripe[s].event.type = "invoice.paid"
                 THEN CalculateMinutesFromInvoice(stripe[s].event.amount_paid)
                 ELSE 0,
             ![s].pc = IF userId = NULL THEN "done"
                       ELSE IF stripe[s].event.type = "invoice.paid" THEN "add"
                       ELSE "record",
             ![s].result = IF userId = NULL THEN "no user" ELSE NULL]
    /\ UNCHANGED <<dbVars, adm, jobs, dupCount, wk, sweeper, now, hooks, ded, addc,
                   deductLog, trialLog, balance0, fcall, webhookSecret, anonc,
                   payments>>

\* handleInvoicePaid: addBalance, getBalance
StripeAddBalanceRead(s) ==
    /\ stripe[s].pc = "add"
    /\ stripe' = [stripe EXCEPT ![s].cur = balances[stripe[s].userId],
                                ![s].pc = "write"]
    /\ UNCHANGED <<dbVars, adm, jobs, dupCount, wk, sweeper, now, hooks, ded, addc,
                   deductLog, trialLog, balance0, fcall, webhookSecret, anonc,
                   payments>>

\* handleInvoicePaid: addBalance, update of the row read or insert of a new one;
\* the boolean addBalance returns is not inspected
StripeAddBalanceWrite(s) ==
    /\ stripe[s].pc = "write"
    /\ LET u == stripe[s].userId
           wrote == stripe[s].cur.row = balances[u].row
       IN /\ balances' =
                IF ~wrote THEN balances
                ELSE IF stripe[s].cur.row
                THEN [balances EXCEPT ![u].minutes_balance =
                         stripe[s].cur.minutes_balance + stripe[s].minutesDelta]
                ELSE [balances EXCEPT ![u] =
                         [row |-> TRUE, minutes_balance |-> stripe[s].minutesDelta]]
          /\ stripe' = [stripe EXCEPT ![s].credited = wrote, ![s].pc = "record"]
    /\ UNCHANGED <<tasks, transcripts, trialUsages, anonTokens, adm, jobs, dupCount,
                   wk, sweeper, now, hooks, ded, addc, deductLog, trialLog,
                   balance0, fcall, webhookSecret, anonc, payments>>

\* recordPayment, then handleWebhook returns
StripeRecordPayment(s) ==
    /\ stripe[s].pc = "record"
    /\ payments' = RecordPayment(payments, stripe[s].event, stripe[s].userId,
                                 IF stripe[s].event.type = "invoice.paid"
                                 THEN INVOICE_PAID ELSE SUBSCRIPTION_UPDATED,
                                 stripe[s].minutesDelta)
    /\ stripe' = [stripe EXCEPT ![s].pc = "done", ![s].result = "processed"]
    /\ UNCHANGED <<dbVars, adm, jobs, dupCount, wk, sweeper, now, hooks, ded, addc,
                   deductLog, trialLog, balance0, fcall, webhookSecret, anonc>>

\* the customer is known from an earlier payment row, or not; the user has a
\* balance row, or not
InitStripe ==
    /\ tasks = [t \in TaskIds |-> NoTask]
    /\ transcripts = [t \in TaskIds |-> 0]
    /\ trialUsages = [k \in UsageKeys |-> 0]
    /\ anonTokens = [a \in AnonIds |-> NoAnonToken]
    /\ \E row \in BOOLEAN :
         balances = [u \in UserIds |->
                        [row |-> row,
                         minutes_balance |-> IF row THEN InitBalanceOfUser ELSE 0]]
    /\ \E known \in BOOLEAN :
         payments = [e \in PaymentIds |->
                        IF e = PriorPaymentId /\ known
                        THEN [row |-> TRUE, user_id |-> BillingUser,
                              stripe_customer_id |-> StripeCustomer,
                              event_type |-> SUBSCRIPTION_UPDATED,
                              minutes_delta |-> 0]
                        ELSE NoPayment]
    /\ adm = [a \in Adm |-> IdleAdm]
    /\ jobs = [t \in TaskIds |-> NoJob]
    /\ dupCount = 0
    /\ wk = [w \in Workers |-> IdleWorker]
    /\ sweeper = IdleSweeper
    /\ now = 0
    /\ hooks = [h \in Hooks |-> IdleHook]
    /\ ded = [d \in DeductCalls |-> IdleDeduct]
    /\ addc = [d \in AddCalls |-> IdleAdd]
    /\ deductLog = [t \in TaskIds |-> 0]
    /\ trialLog = [t \in TaskIds |-> 0]
    /\ balance0 = balances
    /\ fcall = NoCall
    /\ webhookSecret = NoSecret
    /\ anonc = [c \in AnonCalls |-> IdleAnonCall]
    /\ stripe = [s \in StripeHooks |-> IdleStripeHook]

StripeNext ==
    \/ \E s \in StripeHooks, e \in StripeEvents, rawBody \in RawBodies,
          valid \in BOOLEAN :
           StripeHandleWebhookRead(s, e, rawBody, valid)
    \/ \E s \in StripeHooks : StripeLookupUser(s)
    \/ \E s \in StripeHooks : StripeAddBalanceRead(s)
    \/ \E s \in StripeHooks : StripeAddBalanceWrite(s)
    \/ \E s \in StripeHooks : StripeRecordPayment(s)

SpecStripe == InitStripe /\ [][StripeNext]_vars

\* ---------------------------------------------------------------- C39
\* the invoice.paid event ids that have been delivered
DeliveredInvoices ==
    {e \in StripeEvents :
        /\ e.type = "invoice.paid"
        /\ \E s \in StripeHooks : stripe[s].event = e}

RECURSIVE SumInvoiceMinutes(_)
SumInvoiceMinutes(E) ==
    IF E = {} THEN 0
    ELSE LET e == CHOOSE x \in E : TRUE
         IN CalculateMinutesFromInvoice(e.amount_paid) + SumInvoiceMinutes(E \ {e})

====
